---------------------------- MODULE Spec2Model ----------------------------
(***************************************************************************)
(* A model of package csgolog (src/csgolog.go): the parser of csgo server  *)
(* log lines.  A call of Parse / ParseWithPatterns is a goroutine that     *)
(* walks through the body of ParseWithPatterns: the match of the line      *)
(* against LogLinePattern and time.Parse, the range over the recognizer    *)
(* table, and the call of the extractor paired with the pattern at which   *)
(* the range returned.  Strings are TLA+ strings, patterns are the syntax  *)
(* trees of the regular expressions of the source, and matching is the     *)
(* leftmost-first (backtracking) matching of Go's regexp package.          *)
(***************************************************************************)
EXTENDS Integers, Sequences, FiniteSets, TLC

(***************************************************************************)
(* Bounds of the model.                                                    *)
(***************************************************************************)
\* Number of digits of the longest digit string drawn for a numeric field.
MaxDigits == 3
\* Number of characters of the longest text put before or after a message,
\* or before the timestamp of a line.
MaxPad == 1
\* Width in bits of Go's int.  The platform's 64 is scaled down so that the
\* edge of the range lies among the digit strings of at most MaxDigits
\* digits: every comparison against the range is made against MaxInt.
IntBits == 7
\* Number of goroutines that call the parser side by side in SpecConc.
NumGoroutines == 2

MaxInt == 2^(IntBits - 1) - 1
MinInt == 0 - 2^(IntBits - 1)

(***************************************************************************)
(* Regular expressions (package regexp, RE2 syntax, leftmost-first match). *)
(***************************************************************************)
Digit == {"0", "1", "2", "3", "4", "5", "6", "7", "8", "9"}
Lower == {"a", "b", "c", "d", "e", "f", "g", "h", "i", "j", "k", "l", "m",
          "n", "o", "p", "q", "r", "s", "t", "u", "v", "w", "x", "y", "z"}
Upper == {"A", "B", "C", "D", "E", "F", "G", "H", "I", "J", "K", "L", "M",
          "N", "O", "P", "Q", "R", "S", "T", "U", "V", "W", "X", "Y", "Z"}
\* \w and \d are ASCII classes in RE2.
Word == Digit \cup Lower \cup Upper \cup {"_"}

\* Syntax trees.  Dot is `.` (any character but a line feed), Set a
\* character class, Lit a run of literal characters, Rep a greedy
\* repetition (hi = -1: unbounded), Cap a capturing group.
Dot == [k |-> "any"]
Set(S) == [k |-> "set", s |-> S]
Lit(str) == [k |-> "lit", s |-> str]
Rep(x, lo, hi) == [k |-> "rep", r |-> x, lo |-> lo, hi |-> hi]
Plus(x) == Rep(x, 1, -1)
Star(x) == Rep(x, 0, -1)
Opt(x) == Rep(x, 0, 1)
Cat(rs) == [k |-> "cat", rs |-> rs]
Alt(rs) == [k |-> "alt", rs |-> rs]
Cap(n, x) == [k |-> "cap", n |-> n, r |-> x]

NoMatch == [ok |-> FALSE, from |-> 0, end |-> 0, caps |-> <<>>]

CharAt(s, i) == SubSeq(s, i, i)
CharOK(h, c) == IF h.k = "any" THEN c # "\n" ELSE c \in h.s

\* The number of characters from offset i on that a one-character node h
\* matches in a row, at most hi of them.
RunLen(h, s, i, hi) ==
  LET lim == IF hi >= 0 /\ i + hi < Len(s) THEN hi ELSE Len(s) - i
      bad == {n \in 0..(lim - 1) : ~CharOK(h, CharAt(s, i + n + 1))}
  IN  IF bad = {} THEN lim ELSE CHOOSE n \in bad : \A m \in bad : n <= m

\* A thread of the matcher: the offset it has reached, the groups it has
\* captured, where its open groups began, and the choices it took.  At an alternation the
\* choice is the number of the alternative, at a greedy repetition the
\* number of repetitions given up: the preferred choice is the least.
Thread(end, caps, key) ==
  [end |-> end, caps |-> caps, key |-> key, open |-> [g \in DOMAIN caps |-> 0]]

\* Ends(x, j, s, ths): the threads that the threads ths become by matching
\* node x against s; for a concatenation x, by matching its nodes from the
\* j-th on, one after the other.  A group is repeated at most once (x?) in
\* the patterns.
RECURSIVE Ends(_, _, _, _)
Ends(x, j, s, ths) ==
  IF ths = {} THEN {}
  ELSE CASE x.k = "lit" ->
         {[th EXCEPT !.end = @ + Len(x.s)] :
            th \in {u \in ths : /\ u.end + Len(x.s) <= Len(s)
                                /\ SubSeq(s, u.end + 1, u.end + Len(x.s)) = x.s}}
    [] x.k \in {"any", "set"} ->
         {[th EXCEPT !.end = @ + 1] :
            th \in {u \in ths : u.end < Len(s) /\ CharOK(x, CharAt(s, u.end + 1))}}
    [] x.k = "cat" ->
         IF j > Len(x.rs) THEN ths ELSE Ends(x, j + 1, s, Ends(x.rs[j], 1, s, ths))
    [] x.k = "alt" ->
         UNION {Ends(x.rs[a], 1, s, {[th EXCEPT !.key = Append(@, a)] : th \in ths})
                  : a \in 1..Len(x.rs)}
    [] x.k = "rep" ->
         IF x.r.k \in {"any", "set"}
         THEN UNION {LET m == RunLen(x.r, s, th.end, x.hi)
                     IN  {[th EXCEPT !.end = @ + n, !.key = Append(@, m - n)]
                            : n \in x.lo..m} : th \in ths}
         ELSE Ends(x.r, 1, s, {[th EXCEPT !.key = Append(@, 0)] : th \in ths})
                \cup {[th EXCEPT !.key = Append(@, 1)] : th \in ths}
    [] x.k = "cap" ->
         {[u EXCEPT !.caps[x.n] = SubSeq(s, u.open[x.n], u.end)] :
            u \in Ends(x.r, 1, s, {[th EXCEPT !.open[x.n] = th.end + 1] : th \in ths})}

\* key a comes before key b: a took the preferred branch where they part.
Before(a, b) ==
  \E j \in 1..Len(a) : j <= Len(b) /\ a[j] < b[j] /\ \A l \in 1..(j - 1) : a[l] = b[l]

\* The match of re in s that starts at offset i: that of the thread a
\* backtracking matcher reaches first.
MatchAt(re, s, i, n) ==
  LET ths == Ends(re, 1, s, {Thread(i, [g \in 1..n |-> ""], <<>>)})
      th  == CHOOSE u \in ths : \A w \in ths \ {u} : Before(u.key, w.key)
  IN  IF ths = {} THEN NoMatch
      ELSE [ok |-> TRUE, from |-> i, end |-> th.end, caps |-> th.caps]

\* Of the attempts <<preference, outcome>>, the successful one of the least
\* preference number.
First(cands) ==
  LET good == {c \in cands : c[2].ok}
  IN  IF good = {} THEN NoMatch
      ELSE (CHOOSE c \in good : \A d \in good : c[1] <= d[1])[2]

\* The number of capturing groups of a pattern.
RECURSIVE NumSubexp(_)
NumSubexp(x) ==
  LET Max(S) == IF S = {} THEN 0 ELSE CHOOSE a \in S : \A b \in S : b <= a
  IN CASE x.k = "cap" -> Max({x.n, NumSubexp(x.r)})
       [] x.k = "rep" -> NumSubexp(x.r)
       [] x.k \in {"cat", "alt"} -> Max({NumSubexp(x.rs[j]) : j \in 1..Len(x.rs)})
       [] OTHER -> 0

\* (*Regexp).FindStringSubmatch: the leftmost match of re in s as the slice
\* [whole match, group 1, ..., group n], a group that took no part being
\* "", or nil (the empty slice) when re matches nowhere in s.  A slice is a
\* function on 0..len-1.
FindStringSubmatch(re, s) ==
  LET n == NumSubexp(re)
      m == First({<<i, MatchAt(re, s, i, n)>> : i \in 0..Len(s)})
  IN  IF ~m.ok THEN <<>>
      ELSE [j \in 0..n |-> IF j = 0 THEN SubSeq(s, m.from + 1, m.end) ELSE m.caps[j]]

(***************************************************************************)
(* The patterns of the source.                                             *)
(***************************************************************************)
\* src/csgolog.go:57  L (\d{2}\/\d{2}\/\d{4} - \d{2}:\d{2}:\d{2}): (.*)
LogLinePattern ==
  Cat(<<Lit("L "),
        Cap(1, Cat(<<Rep(Set(Digit), 2, 2), Lit("/"), Rep(Set(Digit), 2, 2), Lit("/"), Rep(Set(Digit), 4, 4), Lit(" - "), Rep(Set(Digit), 2, 2), Lit(":"), Rep(Set(Digit), 2, 2), Lit(":"), Rep(Set(Digit), 2, 2)>>)),
        Lit(": "), Cap(2, Star(Dot))>>)

\* src/csgolog.go:60  (\d{2}\/\d{2}\/\d{4} - \d{2}:\d{2}:\d{2}.\d{3}) - (.*)
HTTPLinePattern ==
  Cat(<<Cap(1, Cat(<<Rep(Set(Digit), 2, 2), Lit("/"), Rep(Set(Digit), 2, 2), Lit("/"), Rep(Set(Digit), 4, 4), Lit(" - "), Rep(Set(Digit), 2, 2), Lit(":"), Rep(Set(Digit), 2, 2), Lit(":"), Rep(Set(Digit), 2, 2), Dot, Rep(Set(Digit), 3, 3)>>)),
        Lit(" - "), Cap(2, Star(Dot))>>)

\* src/csgolog.go:428  server_message: "(\w+)"
ServerMessagePattern ==
  Cat(<<Lit("server_message: \""), Cap(1, Plus(Set(Word))), Lit("\"")>>)

\* src/csgolog.go:430  Starting Freeze period
FreezTimeStartPattern ==
  Cat(<<Lit("Starting Freeze period")>>)

\* src/csgolog.go:432  World triggered "Match_Start" on "(\w+)"
WorldMatchStartPattern ==
  Cat(<<Lit("World triggered \"Match_Start\" on \""), Cap(1, Plus(Set(Word))), Lit("\"")>>)

\* src/csgolog.go:434  World triggered "Round_Start"
WorldRoundStartPattern ==
  Cat(<<Lit("World triggered \"Round_Start\"")>>)

\* src/csgolog.go:436  World triggered "Restart_Round_\((\d+)_second\)
WorldRoundRestartPattern ==
  Cat(<<Lit("World triggered \"Restart_Round_("), Cap(1, Plus(Set(Digit))), Lit("_second)")>>)

\* src/csgolog.go:438  World triggered "Round_End"
WorldRoundEndPattern ==
  Cat(<<Lit("World triggered \"Round_End\"")>>)

\* src/csgolog.go:440  World triggered "Game_Commencing"
WorldGameCommencingPattern ==
  Cat(<<Lit("World triggered \"Game_Commencing\"")>>)

\* src/csgolog.go:442  Team "(CT|TERRORIST)" scored "(\d+)" with "(\d+)" players
TeamScoredPattern ==
  Cat(<<Lit("Team \""), Cap(1, Alt(<<Lit("CT"), Lit("TERRORIST")>>)), Lit("\" scored \""),
        Cap(2, Plus(Set(Digit))), Lit("\" with \""), Cap(3, Plus(Set(Digit))), Lit("\" players")>>)

\* src/csgolog.go:444  Team "(CT|TERRORIST)" triggered "(\w+)" \(CT "(\d+)"\) \(T "(\d+)"\)
TeamNoticePattern ==
  Cat(<<Lit("Team \""), Cap(1, Alt(<<Lit("CT"), Lit("TERRORIST")>>)), Lit("\" triggered \""),
        Cap(2, Plus(Set(Word))), Lit("\" (CT \""), Cap(3, Plus(Set(Digit))), Lit("\") (T \""),
        Cap(4, Plus(Set(Digit))), Lit("\")")>>)

\* src/csgolog.go:446  "(.+)<(\d+)><([\w:]+)><>" connected, address "(.*)"
PlayerConnectedPattern ==
  Cat(<<Lit("\""), Cap(1, Plus(Dot)), Lit("<"), Cap(2, Plus(Set(Digit))), Lit("><"),
        Cap(3, Plus(Set(Word \cup {":"}))), Lit("><>\" connected, address \""), Cap(4, Star(Dot)),
        Lit("\"")>>)

\* src/csgolog.go:448  "(.+)<(\d+)><([\w:]+)><(TERRORIST|CT|Unassigned|)>" disconnected \(reason "(.+)"\)
PlayerDisconnectedPattern ==
  Cat(<<Lit("\""), Cap(1, Plus(Dot)), Lit("<"), Cap(2, Plus(Set(Digit))), Lit("><"),
        Cap(3, Plus(Set(Word \cup {":"}))), Lit("><"),
        Cap(4, Alt(<<Lit("TERRORIST"), Lit("CT"), Lit("Unassigned"), Lit("")>>)),
        Lit(">\" disconnected (reason \""), Cap(5, Plus(Dot)), Lit("\")")>>)

\* src/csgolog.go:450  "(.+)<(\d+)><([\w:]+)><>" entered the game
PlayerEnteredPattern ==
  Cat(<<Lit("\""), Cap(1, Plus(Dot)), Lit("<"), Cap(2, Plus(Set(Digit))), Lit("><"),
        Cap(3, Plus(Set(Word \cup {":"}))), Lit("><>\" entered the game")>>)

\* src/csgolog.go:452  Banid: "(.+)<(\d+)><([\w:]+)><\w*>" was banned "([\w. ]+)" by "(\w+)"
PlayerBannedPattern ==
  Cat(<<Lit("Banid: \""), Cap(1, Plus(Dot)), Lit("<"), Cap(2, Plus(Set(Digit))), Lit("><"),
        Cap(3, Plus(Set(Word \cup {":"}))), Lit("><"), Star(Set(Word)), Lit(">\" was banned \""),
        Cap(4, Plus(Set(Word \cup {".", " "}))), Lit("\" by \""), Cap(5, Plus(Set(Word))), Lit("\"")>>)

\* src/csgolog.go:454  "(.+)<(\d+)><([\w:]+)>" switched from team <(Unassigned|Spectator|TERRORIST|CT)> to <(Unassigned|Spectator|TERRORIST|CT)>
PlayerSwitchedPattern ==
  Cat(<<Lit("\""), Cap(1, Plus(Dot)), Lit("<"), Cap(2, Plus(Set(Digit))), Lit("><"),
        Cap(3, Plus(Set(Word \cup {":"}))), Lit(">\" switched from team <"),
        Cap(4, Alt(<<Lit("Unassigned"), Lit("Spectator"), Lit("TERRORIST"), Lit("CT")>>)),
        Lit("> to <"),
        Cap(5, Alt(<<Lit("Unassigned"), Lit("Spectator"), Lit("TERRORIST"), Lit("CT")>>)), Lit(">")>>)

\* src/csgolog.go:456  "(.+)<(\d+)><([\w:]+)><(TERRORIST|CT)>" say(_team)? "(.*)"
PlayerSayPattern ==
  Cat(<<Lit("\""), Cap(1, Plus(Dot)), Lit("<"), Cap(2, Plus(Set(Digit))), Lit("><"),
        Cap(3, Plus(Set(Word \cup {":"}))), Lit("><"), Cap(4, Alt(<<Lit("TERRORIST"), Lit("CT")>>)),
        Lit(">\" say"), Opt(Cap(5, Lit("_team"))), Lit(" \""), Cap(6, Star(Dot)), Lit("\"")>>)

\* src/csgolog.go:458  "(.+)<(\d+)><([\w:]+)><(TERRORIST|CT)>" purchased "(\w+)"
PlayerPurchasePattern ==
  Cat(<<Lit("\""), Cap(1, Plus(Dot)), Lit("<"), Cap(2, Plus(Set(Digit))), Lit("><"),
        Cap(3, Plus(Set(Word \cup {":"}))), Lit("><"), Cap(4, Alt(<<Lit("TERRORIST"), Lit("CT")>>)),
        Lit(">\" purchased \""), Cap(5, Plus(Set(Word))), Lit("\"")>>)

\* src/csgolog.go:460  "(.+)<(\d+)><([\w:]+)><(TERRORIST|CT)>" \[(-?\d+) (-?\d+) (-?\d+)\] killed "(.+)<(\d+)><([\w:]+)><(TERRORIST|CT)>" \[(-?\d+) (-?\d+) (-?\d+)\] with "(\w+)" ?(\(?(headshot|penetrated|headshot penetrated)?\))?
PlayerKillPattern ==
  Cat(<<Lit("\""), Cap(1, Plus(Dot)), Lit("<"), Cap(2, Plus(Set(Digit))), Lit("><"),
        Cap(3, Plus(Set(Word \cup {":"}))), Lit("><"), Cap(4, Alt(<<Lit("TERRORIST"), Lit("CT")>>)),
        Lit(">\" ["), Cap(5, Cat(<<Opt(Lit("-")), Plus(Set(Digit))>>)), Lit(" "),
        Cap(6, Cat(<<Opt(Lit("-")), Plus(Set(Digit))>>)), Lit(" "),
        Cap(7, Cat(<<Opt(Lit("-")), Plus(Set(Digit))>>)), Lit("] killed \""), Cap(8, Plus(Dot)),
        Lit("<"), Cap(9, Plus(Set(Digit))), Lit("><"), Cap(10, Plus(Set(Word \cup {":"}))),
        Lit("><"), Cap(11, Alt(<<Lit("TERRORIST"), Lit("CT")>>)), Lit(">\" ["),
        Cap(12, Cat(<<Opt(Lit("-")), Plus(Set(Digit))>>)), Lit(" "),
        Cap(13, Cat(<<Opt(Lit("-")), Plus(Set(Digit))>>)), Lit(" "),
        Cap(14, Cat(<<Opt(Lit("-")), Plus(Set(Digit))>>)), Lit("] with \""),
        Cap(15, Plus(Set(Word))), Lit("\""), Opt(Lit(" ")),
        Opt(Cap(16, Cat(<<Opt(Lit("(")), Opt(Cap(17, Alt(<<Lit("headshot"), Lit("penetrated"), Lit("headshot penetrated")>>))), Lit(")")>>)))>>)

\* src/csgolog.go:462  "(.+)<(\d+)><([\w:]+)><(TERRORIST|CT)>" assisted killing "(.+)<(\d+)><([\w:]+)><(TERRORIST|CT)>"
PlayerKillAssistPattern ==
  Cat(<<Lit("\""), Cap(1, Plus(Dot)), Lit("<"), Cap(2, Plus(Set(Digit))), Lit("><"),
        Cap(3, Plus(Set(Word \cup {":"}))), Lit("><"), Cap(4, Alt(<<Lit("TERRORIST"), Lit("CT")>>)),
        Lit(">\" assisted killing \""), Cap(5, Plus(Dot)), Lit("<"), Cap(6, Plus(Set(Digit))),
        Lit("><"), Cap(7, Plus(Set(Word \cup {":"}))), Lit("><"),
        Cap(8, Alt(<<Lit("TERRORIST"), Lit("CT")>>)), Lit(">\"")>>)

\* src/csgolog.go:464  "(.+)<(\d+)><([\w:]+)><(TERRORIST|CT)>" \[(-?\d+) (-?\d+) (-?\d+)\] attacked "(.+)<(\d+)><([\w:]+)><(TERRORIST|CT)>" \[(-?\d+) (-?\d+) (-?\d+)\] with "(\w+)" \(damage "(\d+)"\) \(damage_armor "(\d+)"\) \(health "(\d+)"\) \(armor "(\d+)"\) \(hitgroup "([\w ]+)"\)
PlayerAttackPattern ==
  Cat(<<Lit("\""), Cap(1, Plus(Dot)), Lit("<"), Cap(2, Plus(Set(Digit))), Lit("><"),
        Cap(3, Plus(Set(Word \cup {":"}))), Lit("><"), Cap(4, Alt(<<Lit("TERRORIST"), Lit("CT")>>)),
        Lit(">\" ["), Cap(5, Cat(<<Opt(Lit("-")), Plus(Set(Digit))>>)), Lit(" "),
        Cap(6, Cat(<<Opt(Lit("-")), Plus(Set(Digit))>>)), Lit(" "),
        Cap(7, Cat(<<Opt(Lit("-")), Plus(Set(Digit))>>)), Lit("] attacked \""), Cap(8, Plus(Dot)),
        Lit("<"), Cap(9, Plus(Set(Digit))), Lit("><"), Cap(10, Plus(Set(Word \cup {":"}))),
        Lit("><"), Cap(11, Alt(<<Lit("TERRORIST"), Lit("CT")>>)), Lit(">\" ["),
        Cap(12, Cat(<<Opt(Lit("-")), Plus(Set(Digit))>>)), Lit(" "),
        Cap(13, Cat(<<Opt(Lit("-")), Plus(Set(Digit))>>)), Lit(" "),
        Cap(14, Cat(<<Opt(Lit("-")), Plus(Set(Digit))>>)), Lit("] with \""),
        Cap(15, Plus(Set(Word))), Lit("\" (damage \""), Cap(16, Plus(Set(Digit))),
        Lit("\") (damage_armor \""), Cap(17, Plus(Set(Digit))), Lit("\") (health \""),
        Cap(18, Plus(Set(Digit))), Lit("\") (armor \""), Cap(19, Plus(Set(Digit))),
        Lit("\") (hitgroup \""), Cap(20, Plus(Set(Word \cup {" "}))), Lit("\")")>>)

\* src/csgolog.go:466  "(.+)<(\d+)><([\w:]+)><(TERRORIST|CT)>" \[(-?\d+) (-?\d+) (-?\d+)\] was killed by the bomb\.
PlayerKilledBombPattern ==
  Cat(<<Lit("\""), Cap(1, Plus(Dot)), Lit("<"), Cap(2, Plus(Set(Digit))), Lit("><"),
        Cap(3, Plus(Set(Word \cup {":"}))), Lit("><"), Cap(4, Alt(<<Lit("TERRORIST"), Lit("CT")>>)),
        Lit(">\" ["), Cap(5, Cat(<<Opt(Lit("-")), Plus(Set(Digit))>>)), Lit(" "),
        Cap(6, Cat(<<Opt(Lit("-")), Plus(Set(Digit))>>)), Lit(" "),
        Cap(7, Cat(<<Opt(Lit("-")), Plus(Set(Digit))>>)), Lit("] was killed by the bomb.")>>)

\* src/csgolog.go:468  "(.+)<(\d+)><([\w:]+)><(TERRORIST|CT)>" \[(-?\d+) (-?\d+) (-?\d+)\] committed suicide with "(.*)"
PlayerKilledSuicidePattern ==
  Cat(<<Lit("\""), Cap(1, Plus(Dot)), Lit("<"), Cap(2, Plus(Set(Digit))), Lit("><"),
        Cap(3, Plus(Set(Word \cup {":"}))), Lit("><"), Cap(4, Alt(<<Lit("TERRORIST"), Lit("CT")>>)),
        Lit(">\" ["), Cap(5, Cat(<<Opt(Lit("-")), Plus(Set(Digit))>>)), Lit(" "),
        Cap(6, Cat(<<Opt(Lit("-")), Plus(Set(Digit))>>)), Lit(" "),
        Cap(7, Cat(<<Opt(Lit("-")), Plus(Set(Digit))>>)), Lit("] committed suicide with \""),
        Cap(8, Star(Dot)), Lit("\"")>>)

\* src/csgolog.go:470  "(.+)<(\d+)><([\w:]+)><(TERRORIST|CT)>" picked up "(\w+)"
PlayerPickedUpPattern ==
  Cat(<<Lit("\""), Cap(1, Plus(Dot)), Lit("<"), Cap(2, Plus(Set(Digit))), Lit("><"),
        Cap(3, Plus(Set(Word \cup {":"}))), Lit("><"), Cap(4, Alt(<<Lit("TERRORIST"), Lit("CT")>>)),
        Lit(">\" picked up \""), Cap(5, Plus(Set(Word))), Lit("\"")>>)

\* src/csgolog.go:472  "(.+)<(\d+)><([\w:]+)><(TERRORIST|CT|Unassigned)>" dropped "(\w+)"
PlayerDroppedPattern ==
  Cat(<<Lit("\""), Cap(1, Plus(Dot)), Lit("<"), Cap(2, Plus(Set(Digit))), Lit("><"),
        Cap(3, Plus(Set(Word \cup {":"}))), Lit("><"),
        Cap(4, Alt(<<Lit("TERRORIST"), Lit("CT"), Lit("Unassigned")>>)), Lit(">\" dropped \""),
        Cap(5, Plus(Set(Word))), Lit("\"")>>)

\* PlayerMoneyChangePattern with the item not captured: eight groups.
PlayerMoneyChangePatternOneGroup ==
  Cat(<<Lit("\""), Cap(1, Plus(Dot)), Lit("<"), Cap(2, Plus(Set(Digit))), Lit("><"),
        Cap(3, Plus(Set(Word \cup {":"}))), Lit("><"), Cap(4, Alt(<<Lit("TERRORIST"), Lit("CT")>>)),
        Lit(">\" money change "), Cap(5, Plus(Set(Digit))), Opt(Lit("+")),
        Cap(6, Cat(<<Opt(Lit("-")), Plus(Set(Digit))>>)), Lit(" = $"), Cap(7, Plus(Set(Digit))),
        Lit(" (tracked)"),
        Opt(Cap(8, Cat(<<Lit(" (purchase: "), Plus(Set(Word)), Lit(")")>>)))>>)

\* src/csgolog.go:474  "(.+)<(\d+)><([\w:]+)><(TERRORIST|CT)>" money change (\d+)\+?(-?\d+) = \$(\d+) \(tracked\)( \(purchase: (\w+)\))?
PlayerMoneyChangePattern ==
  Cat(<<Lit("\""), Cap(1, Plus(Dot)), Lit("<"), Cap(2, Plus(Set(Digit))), Lit("><"),
        Cap(3, Plus(Set(Word \cup {":"}))), Lit("><"), Cap(4, Alt(<<Lit("TERRORIST"), Lit("CT")>>)),
        Lit(">\" money change "), Cap(5, Plus(Set(Digit))), Opt(Lit("+")),
        Cap(6, Cat(<<Opt(Lit("-")), Plus(Set(Digit))>>)), Lit(" = $"), Cap(7, Plus(Set(Digit))),
        Lit(" (tracked)"),
        Opt(Cap(8, Cat(<<Lit(" (purchase: "), Cap(9, Plus(Set(Word))), Lit(")")>>)))>>)

\* src/csgolog.go:476  "(.+)<(\d+)><([\w:]+)><(TERRORIST|CT)>" triggered "Got_The_Bomb"
PlayerBombGotPattern ==
  Cat(<<Lit("\""), Cap(1, Plus(Dot)), Lit("<"), Cap(2, Plus(Set(Digit))), Lit("><"),
        Cap(3, Plus(Set(Word \cup {":"}))), Lit("><"), Cap(4, Alt(<<Lit("TERRORIST"), Lit("CT")>>)),
        Lit(">\" triggered \"Got_The_Bomb\"")>>)

\* src/csgolog.go:478  "(.+)<(\d+)><([\w:]+)><(TERRORIST|CT)>" triggered "Planted_The_Bomb"
PlayerBombPlantedPattern ==
  Cat(<<Lit("\""), Cap(1, Plus(Dot)), Lit("<"), Cap(2, Plus(Set(Digit))), Lit("><"),
        Cap(3, Plus(Set(Word \cup {":"}))), Lit("><"), Cap(4, Alt(<<Lit("TERRORIST"), Lit("CT")>>)),
        Lit(">\" triggered \"Planted_The_Bomb\"")>>)

\* src/csgolog.go:480  "(.+)<(\d+)><([\w:]+)><(TERRORIST|CT)>" triggered "Dropped_The_Bomb"
PlayerBombDroppedPattern ==
  Cat(<<Lit("\""), Cap(1, Plus(Dot)), Lit("<"), Cap(2, Plus(Set(Digit))), Lit("><"),
        Cap(3, Plus(Set(Word \cup {":"}))), Lit("><"), Cap(4, Alt(<<Lit("TERRORIST"), Lit("CT")>>)),
        Lit(">\" triggered \"Dropped_The_Bomb\"")>>)

\* src/csgolog.go:482  "(.+)<(\d+)><([\w:]+)><(TERRORIST|CT)>" triggered "Begin_Bomb_Defuse_With(out)?_Kit"
PlayerBombBeginDefusePattern ==
  Cat(<<Lit("\""), Cap(1, Plus(Dot)), Lit("<"), Cap(2, Plus(Set(Digit))), Lit("><"),
        Cap(3, Plus(Set(Word \cup {":"}))), Lit("><"), Cap(4, Alt(<<Lit("TERRORIST"), Lit("CT")>>)),
        Lit(">\" triggered \"Begin_Bomb_Defuse_With"), Opt(Cap(5, Lit("out"))), Lit("_Kit\"")>>)

\* src/csgolog.go:484  "(.+)<(\d+)><([\w:]+)><(TERRORIST|CT)>" triggered "Defused_The_Bomb"
PlayerBombDefusedPattern ==
  Cat(<<Lit("\""), Cap(1, Plus(Dot)), Lit("<"), Cap(2, Plus(Set(Digit))), Lit("><"),
        Cap(3, Plus(Set(Word \cup {":"}))), Lit("><"), Cap(4, Alt(<<Lit("TERRORIST"), Lit("CT")>>)),
        Lit(">\" triggered \"Defused_The_Bomb\"")>>)

\* src/csgolog.go:486  "(.+)<(\d+)><([\w:]+)><(TERRORIST|CT)>" threw (\w+) \[(-?\d+) (-?\d+) (-?\d+)\]( flashbang entindex (\d+))?\)?
PlayerThrewPattern ==
  Cat(<<Lit("\""), Cap(1, Plus(Dot)), Lit("<"), Cap(2, Plus(Set(Digit))), Lit("><"),
        Cap(3, Plus(Set(Word \cup {":"}))), Lit("><"), Cap(4, Alt(<<Lit("TERRORIST"), Lit("CT")>>)),
        Lit(">\" threw "), Cap(5, Plus(Set(Word))), Lit(" ["),
        Cap(6, Cat(<<Opt(Lit("-")), Plus(Set(Digit))>>)), Lit(" "),
        Cap(7, Cat(<<Opt(Lit("-")), Plus(Set(Digit))>>)), Lit(" "),
        Cap(8, Cat(<<Opt(Lit("-")), Plus(Set(Digit))>>)), Lit("]"),
        Opt(Cap(9, Cat(<<Lit(" flashbang entindex "), Cap(10, Plus(Set(Digit)))>>))), Opt(Lit(")"))>>)

\* src/csgolog.go:488  "(.+)<(\d+)><([\w:]+)><(TERRORIST|CT)>" blinded for ([\d.]+) by "(.+)<(\d+)><([\w:]+)><(TERRORIST|CT)>" from flashbang entindex (\d+)
PlayerBlindedPattern ==
  Cat(<<Lit("\""), Cap(1, Plus(Dot)), Lit("<"), Cap(2, Plus(Set(Digit))), Lit("><"),
        Cap(3, Plus(Set(Word \cup {":"}))), Lit("><"), Cap(4, Alt(<<Lit("TERRORIST"), Lit("CT")>>)),
        Lit(">\" blinded for "), Cap(5, Plus(Set(Digit \cup {"."}))), Lit(" by \""),
        Cap(6, Plus(Dot)), Lit("<"), Cap(7, Plus(Set(Digit))), Lit("><"),
        Cap(8, Plus(Set(Word \cup {":"}))), Lit("><"), Cap(9, Alt(<<Lit("TERRORIST"), Lit("CT")>>)),
        Lit(">\" from flashbang entindex "), Cap(10, Plus(Set(Digit)))>>)

\* src/csgolog.go:490  Molotov projectile spawned at (-?\d+\.\d+) (-?\d+\.\d+) (-?\d+\.\d+), velocity (-?\d+\.\d+) (-?\d+\.\d+) (-?\d+\.\d+)
ProjectileSpawnedPattern ==
  Cat(<<Lit("Molotov projectile spawned at "),
        Cap(1, Cat(<<Opt(Lit("-")), Plus(Set(Digit)), Lit("."), Plus(Set(Digit))>>)), Lit(" "),
        Cap(2, Cat(<<Opt(Lit("-")), Plus(Set(Digit)), Lit("."), Plus(Set(Digit))>>)), Lit(" "),
        Cap(3, Cat(<<Opt(Lit("-")), Plus(Set(Digit)), Lit("."), Plus(Set(Digit))>>)),
        Lit(", velocity "),
        Cap(4, Cat(<<Opt(Lit("-")), Plus(Set(Digit)), Lit("."), Plus(Set(Digit))>>)), Lit(" "),
        Cap(5, Cat(<<Opt(Lit("-")), Plus(Set(Digit)), Lit("."), Plus(Set(Digit))>>)), Lit(" "),
        Cap(6, Cat(<<Opt(Lit("-")), Plus(Set(Digit)), Lit("."), Plus(Set(Digit))>>))>>)

\* src/csgolog.go:492  Game Over: (\w+) (\w+) (\w+) score (\d+):(\d+) after (\d+) min
GameOverPattern ==
  Cat(<<Lit("Game Over: "), Cap(1, Plus(Set(Word))), Lit(" "), Cap(2, Plus(Set(Word))), Lit(" "),
        Cap(3, Plus(Set(Word))), Lit(" score "), Cap(4, Plus(Set(Digit))), Lit(":"),
        Cap(5, Plus(Set(Digit))), Lit(" after "), Cap(6, Plus(Set(Digit))), Lit(" min")>>)

\* src/csgolog.go:494  server_cvar: "(\w+)" "(.*)"
ServerCvarPattern ==
  Cat(<<Lit("server_cvar: \""), Cap(1, Plus(Set(Word))), Lit("\" \""), Cap(2, Star(Dot)), Lit("\"")>>)

\* src/csgolog.go:496  get5_event: {"matchid(.*)":"(\w*)","params":(.*),"event":"(series_start|map_veto|map_pick|side_picked|knife_start|knife_won|going_live|player_death|round_end|side_swap|map_end|series_end|backup_loaded|match_config_load_fail|client_say|bomb_planted|bomb_defused|bomb_exploded|player_connect|player_disconnect|team_ready|team_unready)"}
Get5EventPattern ==
  Cat(<<Lit("get5_event: {\"matchid"), Cap(1, Star(Dot)), Lit("\":\""), Cap(2, Star(Set(Word))),
        Lit("\",\"params\":"), Cap(3, Star(Dot)), Lit(",\"event\":\""),
        Cap(4, Alt(<<Lit("series_start"), Lit("map_veto"), Lit("map_pick"), Lit("side_picked"), Lit("knife_start"), Lit("knife_won"), Lit("going_live"), Lit("player_death"), Lit("round_end"), Lit("side_swap"), Lit("map_end"), Lit("series_end"), Lit("backup_loaded"), Lit("match_config_load_fail"), Lit("client_say"), Lit("bomb_planted"), Lit("bomb_defused"), Lit("bomb_exploded"), Lit("player_connect"), Lit("player_disconnect"), Lit("team_ready"), Lit("team_unready")>>)),
        Lit("\"}")>>)

\* src/csgolog.go:498  rcon from "(.*):(\d+)": command "(.*)"
RconEventPattern ==
  Cat(<<Lit("rcon from \""), Cap(1, Star(Dot)), Lit(":"), Cap(2, Plus(Set(Digit))),
        Lit("\": command \""), Cap(3, Star(Dot)), Lit("\"")>>)

\* src/csgolog.go:500  "(.+)<(\d+)><([\w:]+)><(TERRORIST|CT)>" \[(-?\d+) (-?\d+) (-?\d+)\] killed other "(.+)<(\d+)>" \[(-?\d+) (-?\d+) (-?\d+)\] with "(\w+)"
PlayerKillOtherPattern ==
  Cat(<<Lit("\""), Cap(1, Plus(Dot)), Lit("<"), Cap(2, Plus(Set(Digit))), Lit("><"),
        Cap(3, Plus(Set(Word \cup {":"}))), Lit("><"), Cap(4, Alt(<<Lit("TERRORIST"), Lit("CT")>>)),
        Lit(">\" ["), Cap(5, Cat(<<Opt(Lit("-")), Plus(Set(Digit))>>)), Lit(" "),
        Cap(6, Cat(<<Opt(Lit("-")), Plus(Set(Digit))>>)), Lit(" "),
        Cap(7, Cat(<<Opt(Lit("-")), Plus(Set(Digit))>>)), Lit("] killed other \""),
        Cap(8, Plus(Dot)), Lit("<"), Cap(9, Plus(Set(Digit))), Lit(">\" ["),
        Cap(10, Cat(<<Opt(Lit("-")), Plus(Set(Digit))>>)), Lit(" "),
        Cap(11, Cat(<<Opt(Lit("-")), Plus(Set(Digit))>>)), Lit(" "),
        Cap(12, Cat(<<Opt(Lit("-")), Plus(Set(Digit))>>)), Lit("] with \""),
        Cap(13, Plus(Set(Word))), Lit("\"")>>)

(***************************************************************************)
(* Conversions of captured text (strconv, time, strings).                  *)
(***************************************************************************)
DigitVal == [c \in Digit |->
  CASE c = "0" -> 0 [] c = "1" -> 1 [] c = "2" -> 2 [] c = "3" -> 3 [] c = "4" -> 4
    [] c = "5" -> 5 [] c = "6" -> 6 [] c = "7" -> 7 [] c = "8" -> 8 [] c = "9" -> 9]

AllIn(s, S) == \A i \in 1..Len(s) : CharAt(s, i) \in S

\* The value of the digit string ds, or cap + 1 once it exceeds cap.
RECURSIVE DigitsValue(_, _, _, _)
DigitsValue(ds, j, acc, cap) ==
  IF j > Len(ds) THEN acc
  ELSE LET a == acc * 10 + DigitVal[CharAt(ds, j)]
       IN  IF a > cap THEN cap + 1 ELSE DigitsValue(ds, j + 1, a, cap)

\* strings.Contains
Contains(s, substr) ==
  \E i \in 0..(Len(s) - Len(substr)) : SubSeq(s, i + 1, i + Len(substr)) = substr

\* strconv.Atoi: an optional sign and decimal digits; a syntax error on
\* anything else and a range error outside [MinInt, MaxInt].
Atoi(v) ==
  LET signed == Len(v) > 0 /\ CharAt(v, 1) \in {"+", "-"}
      neg    == Len(v) > 0 /\ CharAt(v, 1) = "-"
      ds     == IF signed THEN SubSeq(v, 2, Len(v)) ELSE v
      n      == DigitsValue(ds, 1, 0, MaxInt + 1)
  IN  IF ds = "" \/ ~AllIn(ds, Digit) THEN [i |-> 0, err |-> "invalid syntax"]
      ELSE IF (neg /\ n > MaxInt + 1) \/ (~neg /\ n > MaxInt)
           THEN [i |-> IF neg THEN MinInt ELSE MaxInt, err |-> "value out of range"]
      ELSE [i |-> IF neg THEN 0 - n ELSE n, err |-> "nil"]

\* A float32 is named by the decimal it was read from: sign, integer part
\* and fraction digits without trailing zeros.
Float32(neg, int, frac) == [neg |-> neg, int |-> int, frac |-> frac]
RECURSIVE TrimZeros(_)
TrimZeros(ds) ==
  IF ds # "" /\ CharAt(ds, Len(ds)) = "0" THEN TrimZeros(SubSeq(ds, 1, Len(ds) - 1)) ELSE ds

\* strconv.ParseFloat(v, 32) on text made of digits, signs and points (the
\* only characters the patterns capture for a float): an optional sign,
\* digits with at most one point, at least one digit.
ParseFloat(v) ==
  LET signed == Len(v) > 0 /\ CharAt(v, 1) \in {"+", "-"}
      neg    == Len(v) > 0 /\ CharAt(v, 1) = "-"
      body   == IF signed THEN SubSeq(v, 2, Len(v)) ELSE v
      points == {i \in 1..Len(body) : CharAt(body, i) = "."}
      p      == IF points = {} THEN Len(body) + 1 ELSE CHOOSE i \in points : TRUE
      ip     == SubSeq(body, 1, p - 1)
      fp     == SubSeq(body, p + 1, Len(body))
  IN  IF ~AllIn(body, Digit \cup {"."}) \/ Cardinality(points) > 1 \/ ip \o fp = ""
      THEN [f |-> Float32(FALSE, 0, ""), err |-> "invalid syntax"]
      ELSE [f |-> Float32(neg, DigitsValue(ip, 1, 0, 10 ^ (MaxDigits + 2)), TrimZeros(fp)),
            err |-> "nil"]

\* toInt gone wrong: the error of Atoi is dropped (Atoi returns the nearest
\* int with a range error).
toIntAnyway(v) == Atoi(v).i

\* src/csgolog.go:1114-1124
toInt(v) ==
  LET a == Atoi(v) IN IF a.err # "nil" THEN 0 ELSE a.i

\* src/csgolog.go:1126-1135
toFloat32(v) ==
  LET a == ParseFloat(v) IN IF a.err # "nil" THEN Float32(FALSE, 0, "") ELSE a.f

\* time.Parse("01/02/2006 - 15:04:05", v) for v of the shape LogLinePattern
\* captures (dd/dd/dddd - dd:dd:dd): the fields are range-checked in the
\* order of the layout, the day against the month and year last.
IsLeap(year) == year % 4 = 0 /\ (year % 100 # 0 \/ year % 400 = 0)
daysIn(month, year) ==
  IF month = 2 THEN (IF IsLeap(year) THEN 29 ELSE 28)
  ELSE IF month \in {4, 6, 9, 11} THEN 30 ELSE 31
Num(v, a, b) == DigitsValue(SubSeq(v, a, b), 1, 0, 9999)
timeParse(v) ==
  LET month == Num(v, 1, 2)
      day   == Num(v, 4, 5)
      year  == Num(v, 7, 10)
      hour  == Num(v, 14, 15)
      min   == Num(v, 17, 18)
      sec   == Num(v, 20, 21)
      t     == [year |-> year, month |-> month, day |-> day,
                hour |-> hour, min |-> min, sec |-> sec]
      zero  == [year |-> 1, month |-> 1, day |-> 1, hour |-> 0, min |-> 0, sec |-> 0]
  IN  IF month <= 0 \/ 12 < month THEN [t |-> zero, err |-> "month out of range"]
      ELSE IF 24 <= hour THEN [t |-> zero, err |-> "hour out of range"]
      ELSE IF 60 <= min THEN [t |-> zero, err |-> "minute out of range"]
      ELSE IF 60 <= sec THEN [t |-> zero, err |-> "second out of range"]
      ELSE IF day < 1 \/ day > daysIn(month, year) THEN [t |-> zero, err |-> "day out of range"]
      ELSE [t |-> t, err |-> "nil"]

(***************************************************************************)
(* encoding/json, as far as NewGet5Event uses it: json.Unmarshal of the    *)
(* captured params text into a Get5EventParams.  The texts modelled are    *)
(* `null` and the objects whose members are "key":integer or "key":"text"  *)
(* (no white space, no escapes, no nesting); any other text is reported as *)
(* an error.  Keys are compared as written.                                *)
(***************************************************************************)
JsonPlain == Word \cup {" ", ".", ":", "-", "<", ">", "&", "(", ")", "[", "]", "/"}
JsonMember ==
  Cat(<<Lit("\""), Cap(1, Star(Set(JsonPlain))), Lit("\":"),
        Alt(<<Cat(<<Lit("\""), Cap(2, Star(Set(JsonPlain))), Lit("\"")>>),
              Cap(3, Cat(<<Opt(Lit("-")),
                           Alt(<<Lit("0"), Cat(<<Set(Digit \ {"0"}), Star(Set(Digit))>>)>>)>>))>>)>>)

\* The members of the object text s from offset i on, as <<key, text, number>>
\* (number = "" for a string value); ok is FALSE where s is not an object.
RECURSIVE JsonMembers(_, _, _)
JsonMembers(s, i, acc) ==
  LET m == MatchAt(JsonMember, s, i, 3)
  IN  IF ~m.ok \/ m.end >= Len(s) THEN [ok |-> FALSE, ms |-> <<>>]
      ELSE LET acc2 == Append(acc, <<m.caps[1], m.caps[2], m.caps[3]>>)
               c    == CharAt(s, m.end + 1)
           IN  IF c = "}" /\ m.end + 1 = Len(s) THEN [ok |-> TRUE, ms |-> acc2]
               ELSE IF c = "," THEN JsonMembers(s, m.end + 1, acc2)
               ELSE [ok |-> FALSE, ms |-> <<>>]

\* src/csgolog.go:368-386: the fields of Get5EventParams and their json keys
Get5IntKeys ==
  [MapNumber |-> "map_number", Team1Score |-> "team1_score",
   Team1SeriesScore |-> "team1_series_score", Team2Score |-> "team2_score",
   Team2SeriesScore |-> "team2_series_score", Headshot |-> "headshot",
   Reason |-> "reason", Site |-> "site"]
Get5StrKeys ==
  [MapName |-> "map_name", Team1Name |-> "team1_name", Team2Name |-> "team2_name",
   Weapon |-> "weapon", Message |-> "message", File |-> "file", Stage |-> "stage",
   Victim |-> "victim", Attacker |-> "attacker"]
Get5EventParams ==
  [f \in DOMAIN Get5IntKeys \cup DOMAIN Get5StrKeys |->
     IF f \in DOMAIN Get5IntKeys THEN 0 ELSE ""]

\* The object text as its members, ok being FALSE where it is no object.
JsonObject(text) ==
  IF text = "{}" THEN [ok |-> TRUE, ms |-> <<>>]
  ELSE IF Len(text) > 0 /\ CharAt(text, 1) = "{" THEN JsonMembers(text, 1, <<>>)
  ELSE [ok |-> FALSE, ms |-> <<>>]

\* The places of the members ms that have the key; the last of them is the
\* one a field is left with.
KeyPlaces(ms, key) == {j \in 1..Len(ms) : ms[j][1] = key}
LastPlace(S) == CHOOSE j \in S : \A l \in S : l <= j

\* The members ms stored into params: a number into a string field, a
\* string into an int field and a number outside int are errors.
JsonStore(ms, params) ==
  IF \/ \E f \in DOMAIN Get5IntKeys : \E j \in KeyPlaces(ms, Get5IntKeys[f]) :
          ms[j][3] = "" \/ Atoi(ms[j][3]).err # "nil"
     \/ \E f \in DOMAIN Get5StrKeys : \E j \in KeyPlaces(ms, Get5StrKeys[f]) :
          ms[j][3] # ""
  THEN [v |-> params, err |-> "cannot unmarshal"]
  ELSE [v |-> [f \in DOMAIN params |->
                 IF f \in DOMAIN Get5IntKeys
                 THEN (IF KeyPlaces(ms, Get5IntKeys[f]) = {} THEN params[f]
                       ELSE Atoi(ms[LastPlace(KeyPlaces(ms, Get5IntKeys[f]))][3]).i)
                 ELSE (IF KeyPlaces(ms, Get5StrKeys[f]) = {} THEN params[f]
                       ELSE ms[LastPlace(KeyPlaces(ms, Get5StrKeys[f]))][2])],
        err |-> "nil"]

JsonDecode(obj, params) ==
  IF ~obj.ok THEN [v |-> params, err |-> "invalid character"]
  ELSE JsonStore(obj.ms, params)

\* json.Unmarshal([]byte(text), &params)
jsonUnmarshal(text, params) ==
  IF text = "null" THEN [v |-> params, err |-> "nil"]
  ELSE JsonDecode(JsonObject(text), params)

(***************************************************************************)
(* The messages and their extractors.  A message is a record of the        *)
(* fields of its Go struct; struct names the Go type of the value.         *)
(***************************************************************************)
\* src/csgolog.go:597-602
NewMeta(ti, ty) == [Time |-> ti, Type |-> ty]

\* src/csgolog.go:415-417
GetType(m) == m.Meta.Type
\* src/csgolog.go:420-422
GetTime(m) == m.Meta.Time

\* NewUnknown gone wrong: Raw is read one index too low (r[0]).
NewUnknownLowIndex(ti, r) ==
  [struct |-> "Unknown",
   Meta |-> NewMeta(ti, "Unknown"),
   Raw |-> r[0]]

\* src/csgolog.go:1105-1110
NewUnknown(ti, r) ==
  [struct |-> "Unknown",
   Meta |-> NewMeta(ti, "Unknown"),
   Raw |-> r[1]]

\* src/csgolog.go:604-609
NewServerMessage(ti, r) ==
  [struct |-> "ServerMessage",
   Meta |-> NewMeta(ti, "ServerMessage"),
   Text |-> r[1]]

\* src/csgolog.go:611-613
NewFreezTimeStart(ti, r) ==
  [struct |-> "FreezTimeStart", Meta |-> NewMeta(ti, "FreezTimeStart")]

\* src/csgolog.go:615-620
NewWorldMatchStart(ti, r) ==
  [struct |-> "WorldMatchStart",
   Meta |-> NewMeta(ti, "WorldMatchStart"),
   Map |-> r[1]]

\* src/csgolog.go:622-624
NewWorldRoundStart(ti, r) ==
  [struct |-> "WorldRoundStart", Meta |-> NewMeta(ti, "WorldRoundStart")]

\* src/csgolog.go:626-631
NewWorldRoundRestart(ti, r) ==
  [struct |-> "WorldRoundRestart",
   Meta |-> NewMeta(ti, "WorldRoundRestart"),
   Timeleft |-> toInt(r[1])]

\* NewWorldRoundEnd gone wrong: the tag of another variant.
NewWorldRoundEndAsStart(ti, r) ==
  [struct |-> "WorldRoundEnd", Meta |-> NewMeta(ti, "WorldRoundStart")]

\* src/csgolog.go:633-635
NewWorldRoundEnd(ti, r) ==
  [struct |-> "WorldRoundEnd", Meta |-> NewMeta(ti, "WorldRoundEnd")]

\* src/csgolog.go:637-639
NewWorldGameCommencing(ti, r) ==
  [struct |-> "WorldGameCommencing", Meta |-> NewMeta(ti, "WorldGameCommencing")]

\* src/csgolog.go:641-648
NewTeamScored(ti, r) ==
  [struct |-> "TeamScored",
   Meta |-> NewMeta(ti, "TeamScored"),
   Side |-> r[1],
   Score |-> toInt(r[2]),
   NumPlayers |-> toInt(r[3])]

\* src/csgolog.go:650-658
NewTeamNotice(ti, r) ==
  [struct |-> "TeamNotice",
   Meta |-> NewMeta(ti, "TeamNotice"),
   Side |-> r[1],
   Notice |-> r[2],
   ScoreCT |-> toInt(r[3]),
   ScoreT |-> toInt(r[4])]

\* NewPlayerConnected with a side written into the player.
NewPlayerConnectedUnassigned(ti, r) ==
  [struct |-> "PlayerConnected",
   Meta |-> NewMeta(ti, "PlayerConnected"),
   Player |-> [Name |-> r[1], ID |-> toInt(r[2]), SteamID |-> r[3], Side |-> "Unassigned"],
   Address |-> r[4]]

\* src/csgolog.go:660-671
NewPlayerConnected(ti, r) ==
  [struct |-> "PlayerConnected",
   Meta |-> NewMeta(ti, "PlayerConnected"),
   Player |-> [Name |-> r[1], ID |-> toInt(r[2]), SteamID |-> r[3], Side |-> ""],
   Address |-> r[4]]

\* src/csgolog.go:673-684
NewPlayerDisconnected(ti, r) ==
  [struct |-> "PlayerDisconnected",
   Meta |-> NewMeta(ti, "PlayerDisconnected"),
   Player |-> [Name |-> r[1], ID |-> toInt(r[2]), SteamID |-> r[3], Side |-> r[4]],
   Reason |-> r[5]]

\* src/csgolog.go:686-696
NewPlayerEntered(ti, r) ==
  [struct |-> "PlayerEntered",
   Meta |-> NewMeta(ti, "PlayerEntered"),
   Player |-> [Name |-> r[1], ID |-> toInt(r[2]), SteamID |-> r[3], Side |-> ""]]

\* src/csgolog.go:698-710
NewPlayerBanned(ti, r) ==
  [struct |-> "PlayerBanned",
   Meta |-> NewMeta(ti, "PlayerBanned"),
   Player |-> [Name |-> r[1], ID |-> toInt(r[2]), SteamID |-> r[3], Side |-> ""],
   Duration |-> r[4],
   By |-> r[5]]

\* src/csgolog.go:712-724
NewPlayerSwitched(ti, r) ==
  [struct |-> "PlayerSwitched",
   Meta |-> NewMeta(ti, "PlayerSwitched"),
   Player |-> [Name |-> r[1], ID |-> toInt(r[2]), SteamID |-> r[3], Side |-> ""],
   From |-> r[4],
   To |-> r[5]]

\* src/csgolog.go:726-738
NewPlayerSay(ti, r) ==
  [struct |-> "PlayerSay",
   Meta |-> NewMeta(ti, "PlayerSay"),
   Player |-> [Name |-> r[1], ID |-> toInt(r[2]), SteamID |-> r[3], Side |-> r[4]],
   Team |-> r[5] = "_team",
   Text |-> r[6]]

\* src/csgolog.go:740-751
NewPlayerPurchase(ti, r) ==
  [struct |-> "PlayerPurchase",
   Meta |-> NewMeta(ti, "PlayerPurchase"),
   Player |-> [Name |-> r[1], ID |-> toInt(r[2]), SteamID |-> r[3], Side |-> r[4]],
   Item |-> r[5]]

\* NewPlayerKill with each flag read from the other keyword.
NewPlayerKillFlagsSwapped(ti, r) ==
  [struct |-> "PlayerKill",
   Meta |-> NewMeta(ti, "PlayerKill"),
   Attacker |-> [Name |-> r[1], ID |-> toInt(r[2]), SteamID |-> r[3], Side |-> r[4]],
   AttackerPosition |-> [X |-> toInt(r[5]), Y |-> toInt(r[6]), Z |-> toInt(r[7])],
   Victim |-> [Name |-> r[8], ID |-> toInt(r[9]), SteamID |-> r[10], Side |-> r[11]],
   VictimPosition |-> [X |-> toInt(r[12]), Y |-> toInt(r[13]), Z |-> toInt(r[14])],
   Weapon |-> r[15],
   Headshot |-> Contains(r[17], "penetrated"),
   Penetrated |-> Contains(r[17], "headshot")]

\* src/csgolog.go:753-782
NewPlayerKill(ti, r) ==
  [struct |-> "PlayerKill",
   Meta |-> NewMeta(ti, "PlayerKill"),
   Attacker |-> [Name |-> r[1], ID |-> toInt(r[2]), SteamID |-> r[3], Side |-> r[4]],
   AttackerPosition |-> [X |-> toInt(r[5]), Y |-> toInt(r[6]), Z |-> toInt(r[7])],
   Victim |-> [Name |-> r[8], ID |-> toInt(r[9]), SteamID |-> r[10], Side |-> r[11]],
   VictimPosition |-> [X |-> toInt(r[12]), Y |-> toInt(r[13]), Z |-> toInt(r[14])],
   Weapon |-> r[15],
   Headshot |-> Contains(r[17], "headshot"),
   Penetrated |-> Contains(r[17], "penetrated")]

\* src/csgolog.go:784-800
NewPlayerKillAssist(ti, r) ==
  [struct |-> "PlayerKillAssist",
   Meta |-> NewMeta(ti, "PlayerKillAssist"),
   Attacker |-> [Name |-> r[1], ID |-> toInt(r[2]), SteamID |-> r[3], Side |-> r[4]],
   Victim |-> [Name |-> r[5], ID |-> toInt(r[6]), SteamID |-> r[7], Side |-> r[8]]]

\* src/csgolog.go:802-834
NewPlayerAttack(ti, r) ==
  [struct |-> "PlayerAttack",
   Meta |-> NewMeta(ti, "PlayerAttack"),
   Attacker |-> [Name |-> r[1], ID |-> toInt(r[2]), SteamID |-> r[3], Side |-> r[4]],
   AttackerPosition |-> [X |-> toInt(r[5]), Y |-> toInt(r[6]), Z |-> toInt(r[7])],
   Victim |-> [Name |-> r[8], ID |-> toInt(r[9]), SteamID |-> r[10], Side |-> r[11]],
   VictimPosition |-> [X |-> toInt(r[12]), Y |-> toInt(r[13]), Z |-> toInt(r[14])],
   Weapon |-> r[15],
   Damage |-> toInt(r[16]),
   DamageArmor |-> toInt(r[17]),
   Health |-> toInt(r[18]),
   Armor |-> toInt(r[19]),
   Hitgroup |-> r[20]]

\* src/csgolog.go:836-851
NewPlayerKilledBomb(ti, r) ==
  [struct |-> "PlayerKilledBomb",
   Meta |-> NewMeta(ti, "PlayerKilledBomb"),
   Player |-> [Name |-> r[1], ID |-> toInt(r[2]), SteamID |-> r[3], Side |-> r[4]],
   Position |-> [X |-> toInt(r[5]), Y |-> toInt(r[6]), Z |-> toInt(r[7])]]

\* src/csgolog.go:853-869
NewPlayerKilledSuicide(ti, r) ==
  [struct |-> "PlayerKilledSuicide",
   Meta |-> NewMeta(ti, "PlayerKilledSuicide"),
   Player |-> [Name |-> r[1], ID |-> toInt(r[2]), SteamID |-> r[3], Side |-> r[4]],
   Position |-> [X |-> toInt(r[5]), Y |-> toInt(r[6]), Z |-> toInt(r[7])],
   With |-> r[8]]

\* src/csgolog.go:871-882
NewPlayerPickedUp(ti, r) ==
  [struct |-> "PlayerPickedUp",
   Meta |-> NewMeta(ti, "PlayerPickedUp"),
   Player |-> [Name |-> r[1], ID |-> toInt(r[2]), SteamID |-> r[3], Side |-> r[4]],
   Item |-> r[5]]

\* src/csgolog.go:884-895
NewPlayerDropped(ti, r) ==
  [struct |-> "PlayerDropped",
   Meta |-> NewMeta(ti, "PlayerDropped"),
   Player |-> [Name |-> r[1], ID |-> toInt(r[2]), SteamID |-> r[3], Side |-> r[4]],
   Item |-> r[5]]

\* NewPlayerMoneyChange with Purchase read from the group around the item.
NewPlayerMoneyChangeOuterGroup(ti, r) ==
  [struct |-> "PlayerMoneyChange",
   Meta |-> NewMeta(ti, "PlayerMoneyChange"),
   Player |-> [Name |-> r[1], ID |-> toInt(r[2]), SteamID |-> r[3], Side |-> r[4]],
   Equation |-> [A |-> toInt(r[5]), B |-> toInt(r[6]), Result |-> toInt(r[7])],
   Purchase |-> r[8]]

\* src/csgolog.go:897-913
NewPlayerMoneyChange(ti, r) ==
  [struct |-> "PlayerMoneyChange",
   Meta |-> NewMeta(ti, "PlayerMoneyChange"),
   Player |-> [Name |-> r[1], ID |-> toInt(r[2]), SteamID |-> r[3], Side |-> r[4]],
   Equation |-> [A |-> toInt(r[5]), B |-> toInt(r[6]), Result |-> toInt(r[7])],
   Purchase |-> r[9]]

\* src/csgolog.go:915-925
NewPlayerBombGot(ti, r) ==
  [struct |-> "PlayerBombGot",
   Meta |-> NewMeta(ti, "PlayerBombGot"),
   Player |-> [Name |-> r[1], ID |-> toInt(r[2]), SteamID |-> r[3], Side |-> r[4]]]

\* src/csgolog.go:927-937
NewPlayerBombPlanted(ti, r) ==
  [struct |-> "PlayerBombPlanted",
   Meta |-> NewMeta(ti, "PlayerBombPlanted"),
   Player |-> [Name |-> r[1], ID |-> toInt(r[2]), SteamID |-> r[3], Side |-> r[4]]]

\* src/csgolog.go:939-949
NewPlayerBombDropped(ti, r) ==
  [struct |-> "PlayerBombDropped",
   Meta |-> NewMeta(ti, "PlayerBombDropped"),
   Player |-> [Name |-> r[1], ID |-> toInt(r[2]), SteamID |-> r[3], Side |-> r[4]]]

\* NewPlayerBombBeginDefuse with the marker not read.
NewPlayerBombBeginDefuseWithKit(ti, r) ==
  [struct |-> "PlayerBombBeginDefuse",
   Meta |-> NewMeta(ti, "PlayerBombBeginDefuse"),
   Player |-> [Name |-> r[1], ID |-> toInt(r[2]), SteamID |-> r[3], Side |-> r[4]],
   Kit |-> TRUE]

\* src/csgolog.go:951-962
NewPlayerBombBeginDefuse(ti, r) ==
  [struct |-> "PlayerBombBeginDefuse",
   Meta |-> NewMeta(ti, "PlayerBombBeginDefuse"),
   Player |-> [Name |-> r[1], ID |-> toInt(r[2]), SteamID |-> r[3], Side |-> r[4]],
   Kit |-> ~(r[5] = "out")]

\* src/csgolog.go:964-974
NewPlayerBombDefused(ti, r) ==
  [struct |-> "PlayerBombDefused",
   Meta |-> NewMeta(ti, "PlayerBombDefused"),
   Player |-> [Name |-> r[1], ID |-> toInt(r[2]), SteamID |-> r[3], Side |-> r[4]]]

\* src/csgolog.go:976-993
NewPlayerThrew(ti, r) ==
  [struct |-> "PlayerThrew",
   Meta |-> NewMeta(ti, "PlayerThrew"),
   Player |-> [Name |-> r[1], ID |-> toInt(r[2]), SteamID |-> r[3], Side |-> r[4]],
   Grenade |-> r[5],
   Position |-> [X |-> toInt(r[6]), Y |-> toInt(r[7]), Z |-> toInt(r[8])],
   Entindex |-> toInt(r[10])]

\* src/csgolog.go:995-1013
NewPlayerBlinded(ti, r) ==
  [struct |-> "PlayerBlinded",
   Meta |-> NewMeta(ti, "PlayerBlinded"),
   Victim |-> [Name |-> r[1], ID |-> toInt(r[2]), SteamID |-> r[3], Side |-> r[4]],
   For |-> toFloat32(r[5]),
   Attacker |-> [Name |-> r[6], ID |-> toInt(r[7]), SteamID |-> r[8], Side |-> r[9]],
   Entindex |-> toInt(r[10])]

\* src/csgolog.go:1015-1029
NewProjectileSpawned(ti, r) ==
  [struct |-> "ProjectileSpawned",
   Meta |-> NewMeta(ti, "ProjectileSpawned"),
   Position |-> [X |-> toFloat32(r[1]), Y |-> toFloat32(r[2]), Z |-> toFloat32(r[3])],
   Velocity |-> [X |-> toFloat32(r[4]), Y |-> toFloat32(r[5]), Z |-> toFloat32(r[6])]]

\* src/csgolog.go:1031-1041
NewGameOver(ti, r) ==
  [struct |-> "GameOver",
   Meta |-> NewMeta(ti, "GameOver"),
   Mode |-> r[1],
   MapGroup |-> r[2],
   Map |-> r[3],
   ScoreCT |-> toInt(r[4]),
   ScoreT |-> toInt(r[5]),
   Duration |-> toInt(r[6])]

\* src/csgolog.go:1043-1049
NewServerCvar(ti, r) ==
  [struct |-> "ServerCvar",
   Meta |-> NewMeta(ti, "ServerCvar"),
   Key |-> r[1],
   Value |-> r[2]]

\* src/csgolog.go:1080-1103
NewPlayerKillOther(ti, r) ==
  [struct |-> "PlayerKillOther",
   Meta |-> NewMeta(ti, "PlayerKillOther"),
   Attacker |-> [Name |-> r[1], ID |-> toInt(r[2]), SteamID |-> r[3], Side |-> r[4]],
   AttackerPosition |-> [X |-> toInt(r[5]), Y |-> toInt(r[6]), Z |-> toInt(r[7])],
   Victim |-> r[8],
   VictimID |-> r[9],
   VictimPosition |-> [X |-> toInt(r[10]), Y |-> toInt(r[11]), Z |-> toInt(r[12])],
   Weapon |-> r[13]]

\* src/csgolog.go:1051-1064
NewGet5Event(ti, r) ==
  LET get5event == [struct |-> "Get5Event",
                    Meta |-> NewMeta(ti, "Get5Event"),
                    Matchid |-> r[2],
                    Params |-> Get5EventParams,
                    Event |-> r[4]]
      u == jsonUnmarshal(r[3], get5event.Params)
  IN  IF u.err # "nil" THEN NewUnknown(ti, r)
      ELSE [get5event EXCEPT !.Params = u.v]

\* src/csgolog.go:1059-1060: what NewGet5Event writes to the standard logger
Get5EventLog(r) ==
  LET u == jsonUnmarshal(r[3], Get5EventParams)
  IN  IF u.err # "nil" THEN <<"Failed to unmarshal : " \o u.err>> ELSE <<>>

\* NewRconEvent gone wrong: the error of Atoi is dropped and the Rcon is
\* returned with the port Atoi left.
NewRconEventAnyPort(ti, r) ==
  [struct |-> "Rcon",
   Meta |-> NewMeta(ti, "Rcon"),
   IP |-> r[1],
   Port |-> Atoi(r[2]).i,
   Command |-> r[3]]

\* src/csgolog.go:1066-1078
NewRconEvent(ti, r) ==
  LET p == Atoi(r[2])
  IN  IF p.err # "nil" THEN NewUnknown(ti, r)
      ELSE [struct |-> "Rcon",
            Meta |-> NewMeta(ti, "Rcon"),
            IP |-> r[1],
            Port |-> p.i,
            Command |-> r[3]]

(***************************************************************************)
(* The recognizer table.  A table maps the name of a pattern (the key is   *)
(* the compiled pattern) to the name of the extractor paired with it.      *)
(***************************************************************************)
\* src/csgolog.go:510-548
DefaultPatterns ==
  [ServerMessagePattern |-> "NewServerMessage",
   FreezTimeStartPattern |-> "NewFreezTimeStart",
   WorldMatchStartPattern |-> "NewWorldMatchStart",
   WorldRoundStartPattern |-> "NewWorldRoundStart",
   WorldRoundRestartPattern |-> "NewWorldRoundRestart",
   WorldRoundEndPattern |-> "NewWorldRoundEnd",
   WorldGameCommencingPattern |-> "NewWorldGameCommencing",
   TeamScoredPattern |-> "NewTeamScored",
   TeamNoticePattern |-> "NewTeamNotice",
   PlayerConnectedPattern |-> "NewPlayerConnected",
   PlayerDisconnectedPattern |-> "NewPlayerDisconnected",
   PlayerEnteredPattern |-> "NewPlayerEntered",
   PlayerBannedPattern |-> "NewPlayerBanned",
   PlayerSwitchedPattern |-> "NewPlayerSwitched",
   PlayerSayPattern |-> "NewPlayerSay",
   PlayerPurchasePattern |-> "NewPlayerPurchase",
   PlayerKillPattern |-> "NewPlayerKill",
   PlayerKillAssistPattern |-> "NewPlayerKillAssist",
   PlayerAttackPattern |-> "NewPlayerAttack",
   PlayerKilledBombPattern |-> "NewPlayerKilledBomb",
   PlayerKilledSuicidePattern |-> "NewPlayerKilledSuicide",
   PlayerPickedUpPattern |-> "NewPlayerPickedUp",
   PlayerDroppedPattern |-> "NewPlayerDropped",
   PlayerMoneyChangePattern |-> "NewPlayerMoneyChange",
   PlayerBombGotPattern |-> "NewPlayerBombGot",
   PlayerBombPlantedPattern |-> "NewPlayerBombPlanted",
   PlayerBombDroppedPattern |-> "NewPlayerBombDropped",
   PlayerBombBeginDefusePattern |-> "NewPlayerBombBeginDefuse",
   PlayerBombDefusedPattern |-> "NewPlayerBombDefused",
   PlayerThrewPattern |-> "NewPlayerThrew",
   PlayerBlindedPattern |-> "NewPlayerBlinded",
   ProjectileSpawnedPattern |-> "NewProjectileSpawned",
   GameOverPattern |-> "NewGameOver",
   ServerCvarPattern |-> "NewServerCvar",
   Get5EventPattern |-> "NewGet5Event",
   RconEventPattern |-> "NewRconEvent",
   PlayerKillOtherPattern |-> "NewPlayerKillOther"]

\* regexp.MustCompile of the pattern constant of that name
MustCompile(name) ==
  CASE name = "ServerMessagePattern" -> ServerMessagePattern
    [] name = "FreezTimeStartPattern" -> FreezTimeStartPattern
    [] name = "WorldMatchStartPattern" -> WorldMatchStartPattern
    [] name = "WorldRoundStartPattern" -> WorldRoundStartPattern
    [] name = "WorldRoundRestartPattern" -> WorldRoundRestartPattern
    [] name = "WorldRoundEndPattern" -> WorldRoundEndPattern
    [] name = "WorldGameCommencingPattern" -> WorldGameCommencingPattern
    [] name = "TeamScoredPattern" -> TeamScoredPattern
    [] name = "TeamNoticePattern" -> TeamNoticePattern
    [] name = "PlayerConnectedPattern" -> PlayerConnectedPattern
    [] name = "PlayerDisconnectedPattern" -> PlayerDisconnectedPattern
    [] name = "PlayerEnteredPattern" -> PlayerEnteredPattern
    [] name = "PlayerBannedPattern" -> PlayerBannedPattern
    [] name = "PlayerSwitchedPattern" -> PlayerSwitchedPattern
    [] name = "PlayerSayPattern" -> PlayerSayPattern
    [] name = "PlayerPurchasePattern" -> PlayerPurchasePattern
    [] name = "PlayerKillPattern" -> PlayerKillPattern
    [] name = "PlayerKillAssistPattern" -> PlayerKillAssistPattern
    [] name = "PlayerAttackPattern" -> PlayerAttackPattern
    [] name = "PlayerKilledBombPattern" -> PlayerKilledBombPattern
    [] name = "PlayerKilledSuicidePattern" -> PlayerKilledSuicidePattern
    [] name = "PlayerPickedUpPattern" -> PlayerPickedUpPattern
    [] name = "PlayerDroppedPattern" -> PlayerDroppedPattern
    [] name = "PlayerMoneyChangePattern" -> PlayerMoneyChangePattern
    [] name = "PlayerBombGotPattern" -> PlayerBombGotPattern
    [] name = "PlayerBombPlantedPattern" -> PlayerBombPlantedPattern
    [] name = "PlayerBombDroppedPattern" -> PlayerBombDroppedPattern
    [] name = "PlayerBombBeginDefusePattern" -> PlayerBombBeginDefusePattern
    [] name = "PlayerBombDefusedPattern" -> PlayerBombDefusedPattern
    [] name = "PlayerThrewPattern" -> PlayerThrewPattern
    [] name = "PlayerBlindedPattern" -> PlayerBlindedPattern
    [] name = "ProjectileSpawnedPattern" -> ProjectileSpawnedPattern
    [] name = "GameOverPattern" -> GameOverPattern
    [] name = "ServerCvarPattern" -> ServerCvarPattern
    [] name = "Get5EventPattern" -> Get5EventPattern
    [] name = "RconEventPattern" -> RconEventPattern
    [] name = "PlayerKillOtherPattern" -> PlayerKillOtherPattern

\* The call fun(ti, r) of the MessageFunc of that name
MessageFunc(fun, ti, r) ==
  CASE fun = "NewServerMessage" -> NewServerMessage(ti, r)
    [] fun = "NewFreezTimeStart" -> NewFreezTimeStart(ti, r)
    [] fun = "NewWorldMatchStart" -> NewWorldMatchStart(ti, r)
    [] fun = "NewWorldRoundStart" -> NewWorldRoundStart(ti, r)
    [] fun = "NewWorldRoundRestart" -> NewWorldRoundRestart(ti, r)
    [] fun = "NewWorldRoundEnd" -> NewWorldRoundEnd(ti, r)
    [] fun = "NewWorldGameCommencing" -> NewWorldGameCommencing(ti, r)
    [] fun = "NewTeamScored" -> NewTeamScored(ti, r)
    [] fun = "NewTeamNotice" -> NewTeamNotice(ti, r)
    [] fun = "NewPlayerConnected" -> NewPlayerConnected(ti, r)
    [] fun = "NewPlayerDisconnected" -> NewPlayerDisconnected(ti, r)
    [] fun = "NewPlayerEntered" -> NewPlayerEntered(ti, r)
    [] fun = "NewPlayerBanned" -> NewPlayerBanned(ti, r)
    [] fun = "NewPlayerSwitched" -> NewPlayerSwitched(ti, r)
    [] fun = "NewPlayerSay" -> NewPlayerSay(ti, r)
    [] fun = "NewPlayerPurchase" -> NewPlayerPurchase(ti, r)
    [] fun = "NewPlayerKill" -> NewPlayerKill(ti, r)
    [] fun = "NewPlayerKillAssist" -> NewPlayerKillAssist(ti, r)
    [] fun = "NewPlayerAttack" -> NewPlayerAttack(ti, r)
    [] fun = "NewPlayerKilledBomb" -> NewPlayerKilledBomb(ti, r)
    [] fun = "NewPlayerKilledSuicide" -> NewPlayerKilledSuicide(ti, r)
    [] fun = "NewPlayerPickedUp" -> NewPlayerPickedUp(ti, r)
    [] fun = "NewPlayerDropped" -> NewPlayerDropped(ti, r)
    [] fun = "NewPlayerMoneyChange" -> NewPlayerMoneyChange(ti, r)
    [] fun = "NewPlayerBombGot" -> NewPlayerBombGot(ti, r)
    [] fun = "NewPlayerBombPlanted" -> NewPlayerBombPlanted(ti, r)
    [] fun = "NewPlayerBombDropped" -> NewPlayerBombDropped(ti, r)
    [] fun = "NewPlayerBombBeginDefuse" -> NewPlayerBombBeginDefuse(ti, r)
    [] fun = "NewPlayerBombDefused" -> NewPlayerBombDefused(ti, r)
    [] fun = "NewPlayerThrew" -> NewPlayerThrew(ti, r)
    [] fun = "NewPlayerBlinded" -> NewPlayerBlinded(ti, r)
    [] fun = "NewProjectileSpawned" -> NewProjectileSpawned(ti, r)
    [] fun = "NewGameOver" -> NewGameOver(ti, r)
    [] fun = "NewServerCvar" -> NewServerCvar(ti, r)
    [] fun = "NewGet5Event" -> NewGet5Event(ti, r)
    [] fun = "NewRconEvent" -> NewRconEvent(ti, r)
    [] fun = "NewPlayerKillOther" -> NewPlayerKillOther(ti, r)
    [] fun = "NewUnknown" -> NewUnknown(ti, r)

(***************************************************************************)
(* ToJSON: encoding/json with SetEscapeHTML(false).  Two characters of the *)
(* model stand for what is not ASCII: BadByte for a byte that is no valid  *)
(* UTF-8 (0xff), RuneError for U+FFFD, the replacement character.          *)
(***************************************************************************)
BadByte == "~"
RuneError == "^"

\* src/csgolog.go:62-412
\* The fields of each struct type in the order they are declared: the
\* name, the JSON key of the tag, the type, and whether the tag says
\* omitempty.  The embedded Meta of a message is not listed.
Fields ==
  [Player |->
     <<<<"Name", "name", "string", FALSE>>, <<"ID", "id", "int", FALSE>>,
       <<"SteamID", "steam_id", "string", FALSE>>, <<"Side", "side", "string", FALSE>>>>,
   Position |->
     <<<<"X", "x", "int", FALSE>>, <<"Y", "y", "int", FALSE>>, <<"Z", "z", "int", FALSE>>>>,
   PositionFloat |->
     <<<<"X", "x", "float32", FALSE>>, <<"Y", "y", "float32", FALSE>>,
       <<"Z", "z", "float32", FALSE>>>>,
   Velocity |->
     <<<<"X", "x", "float32", FALSE>>, <<"Y", "y", "float32", FALSE>>,
       <<"Z", "z", "float32", FALSE>>>>,
   Equation |->
     <<<<"A", "a", "int", FALSE>>, <<"B", "b", "int", FALSE>>,
       <<"Result", "result", "int", FALSE>>>>,
   ServerMessage |->
     <<<<"Text", "text", "string", FALSE>>>>,
   FreezTimeStart |->
     <<>>,
   WorldMatchStart |->
     <<<<"Map", "map", "string", FALSE>>>>,
   WorldRoundStart |->
     <<>>,
   WorldRoundRestart |->
     <<<<"Timeleft", "timeleft", "int", FALSE>>>>,
   WorldRoundEnd |->
     <<>>,
   WorldGameCommencing |->
     <<>>,
   TeamScored |->
     <<<<"Side", "side", "string", FALSE>>, <<"Score", "score", "int", FALSE>>,
       <<"NumPlayers", "num_players", "int", FALSE>>>>,
   TeamNotice |->
     <<<<"Side", "side", "string", FALSE>>, <<"Notice", "notice", "string", FALSE>>,
       <<"ScoreCT", "score_ct", "int", FALSE>>, <<"ScoreT", "score_t", "int", FALSE>>>>,
   PlayerConnected |->
     <<<<"Player", "player", "Player", FALSE>>, <<"Address", "address", "string", FALSE>>>>,
   PlayerDisconnected |->
     <<<<"Player", "player", "Player", FALSE>>, <<"Reason", "reason", "string", FALSE>>>>,
   PlayerEntered |->
     <<<<"Player", "player", "Player", FALSE>>>>,
   PlayerBanned |->
     <<<<"Player", "player", "Player", FALSE>>,
       <<"Duration", "duration", "string", FALSE>>, <<"By", "by", "string", FALSE>>>>,
   PlayerSwitched |->
     <<<<"Player", "player", "Player", FALSE>>, <<"From", "from", "string", FALSE>>,
       <<"To", "to", "string", FALSE>>>>,
   PlayerSay |->
     <<<<"Player", "player", "Player", FALSE>>, <<"Text", "text", "string", FALSE>>,
       <<"Team", "team", "bool", FALSE>>>>,
   PlayerPurchase |->
     <<<<"Player", "player", "Player", FALSE>>, <<"Item", "item", "string", FALSE>>>>,
   PlayerKill |->
     <<<<"Attacker", "attacker", "Player", FALSE>>,
       <<"AttackerPosition", "attacker_pos", "Position", FALSE>>,
       <<"Victim", "victim", "Player", FALSE>>,
       <<"VictimPosition", "victim_pos", "Position", FALSE>>,
       <<"Weapon", "weapon", "string", FALSE>>,
       <<"Headshot", "headshot", "bool", FALSE>>,
       <<"Penetrated", "penetrated", "bool", FALSE>>>>,
   PlayerKillAssist |->
     <<<<"Attacker", "attacker", "Player", FALSE>>,
       <<"Victim", "victim", "Player", FALSE>>>>,
   PlayerAttack |->
     <<<<"Attacker", "attacker", "Player", FALSE>>,
       <<"AttackerPosition", "attacker_pos", "Position", FALSE>>,
       <<"Victim", "victim", "Player", FALSE>>,
       <<"VictimPosition", "victim_pos", "Position", FALSE>>,
       <<"Weapon", "weapon", "string", FALSE>>, <<"Damage", "damage", "int", FALSE>>,
       <<"DamageArmor", "damage_armor", "int", FALSE>>,
       <<"Health", "health", "int", FALSE>>, <<"Armor", "armor", "int", FALSE>>,
       <<"Hitgroup", "hitgroup", "string", FALSE>>>>,
   PlayerKilledBomb |->
     <<<<"Player", "player", "Player", FALSE>>, <<"Position", "pos", "Position", FALSE>>>>,
   PlayerKilledSuicide |->
     <<<<"Player", "player", "Player", FALSE>>, <<"Position", "pos", "Position", FALSE>>,
       <<"With", "with", "string", FALSE>>>>,
   PlayerPickedUp |->
     <<<<"Player", "player", "Player", FALSE>>, <<"Item", "item", "string", FALSE>>>>,
   PlayerDropped |->
     <<<<"Player", "player", "Player", FALSE>>, <<"Item", "item", "string", FALSE>>>>,
   PlayerMoneyChange |->
     <<<<"Player", "player", "Player", FALSE>>,
       <<"Equation", "equation", "Equation", FALSE>>,
       <<"Purchase", "purchase", "string", FALSE>>>>,
   PlayerBombGot |->
     <<<<"Player", "player", "Player", FALSE>>>>,
   PlayerBombPlanted |->
     <<<<"Player", "player", "Player", FALSE>>>>,
   PlayerBombDropped |->
     <<<<"Player", "player", "Player", FALSE>>>>,
   PlayerBombBeginDefuse |->
     <<<<"Player", "player", "Player", FALSE>>, <<"Kit", "kit", "bool", FALSE>>>>,
   PlayerBombDefused |->
     <<<<"Player", "player", "Player", FALSE>>>>,
   PlayerThrew |->
     <<<<"Player", "player", "Player", FALSE>>, <<"Position", "pos", "Position", FALSE>>,
       <<"Entindex", "entindex", "int", FALSE>>,
       <<"Grenade", "grenade", "string", FALSE>>>>,
   PlayerBlinded |->
     <<<<"Attacker", "attacker", "Player", FALSE>>,
       <<"Victim", "victim", "Player", FALSE>>, <<"For", "for", "float32", FALSE>>,
       <<"Entindex", "entindex", "int", FALSE>>>>,
   ProjectileSpawned |->
     <<<<"Position", "pos", "PositionFloat", FALSE>>,
       <<"Velocity", "velocity", "Velocity", FALSE>>>>,
   GameOver |->
     <<<<"Mode", "mode", "string", FALSE>>, <<"MapGroup", "map_group", "string", FALSE>>,
       <<"Map", "map", "string", FALSE>>, <<"ScoreCT", "score_ct", "int", FALSE>>,
       <<"ScoreT", "score_t", "int", FALSE>>, <<"Duration", "duration", "int", FALSE>>>>,
   ServerCvar |->
     <<<<"Key", "mode", "string", FALSE>>, <<"Value", "value", "string", FALSE>>>>,
   Get5Event |->
     <<<<"Matchid", "matchid", "string", FALSE>>,
       <<"Params", "params", "Get5EventParams", FALSE>>,
       <<"Event", "event", "string", FALSE>>>>,
   Get5EventParams |->
     <<<<"MapNumber", "map_number", "int", TRUE>>,
       <<"MapName", "map_name", "string", TRUE>>,
       <<"Team1Name", "team1_name", "string", TRUE>>,
       <<"Team1Score", "team1_score", "int", TRUE>>,
       <<"Team1SeriesScore", "team1_series_score", "int", TRUE>>,
       <<"Team2Name", "team2_name", "string", TRUE>>,
       <<"Team2Score", "team2_score", "int", TRUE>>,
       <<"Team2SeriesScore", "team2_series_score", "int", TRUE>>,
       <<"Headshot", "headshot", "int", TRUE>>, <<"Weapon", "weapon", "string", TRUE>>,
       <<"Reason", "reason", "int", TRUE>>, <<"Message", "message", "string", TRUE>>,
       <<"File", "file", "string", TRUE>>, <<"Site", "site", "int", TRUE>>,
       <<"Stage", "stage", "string", TRUE>>, <<"Victim", "victim", "string", FALSE>>,
       <<"Attacker", "attacker", "string", FALSE>>>>,
   Rcon |->
     <<<<"IP", "ip", "string", FALSE>>, <<"Port", "port", "uint", FALSE>>,
       <<"Command", "command", "string", FALSE>>>>,
   PlayerKillOther |->
     <<<<"Attacker", "attacker", "Player", FALSE>>,
       <<"AttackerPosition", "attacker_pos", "Position", FALSE>>,
       <<"Victim", "victim", "string", FALSE>>,
       <<"VictimID", "victim_id", "string", FALSE>>,
       <<"VictimPosition", "victim_pos", "Position", FALSE>>,
       <<"Weapon", "weapon", "string", FALSE>>>>,
   Unknown |->
     <<<<"Raw", "raw", "string", FALSE>>>>]

\* The fields of a struct type as a set.
FieldsOf(type) == {Fields[type][j] : j \in 1..Len(Fields[type])}

\* strconv.Itoa
DigitChar(d) == CHOOSE c \in Digit : DigitVal[c] = d
RECURSIVE Itoa(_)
Itoa(n) ==
  IF n < 0 THEN "-" \o Itoa(0 - n)
  ELSE IF n < 10 THEN DigitChar(n)
  ELSE Itoa(n \div 10) \o DigitChar(n % 10)

\* n in decimal with at least w digits.
RECURSIVE ZeroPad(_, _)
ZeroPad(n, w) == IF w <= 1 THEN Itoa(n) ELSE ZeroPad(n \div 10, w - 1) \o DigitChar(n % 10)

\* time.Time.MarshalJSON: RFC 3339; a time read without a zone is in UTC.
TimeText(t) ==
  ZeroPad(t.year, 4) \o "-" \o ZeroPad(t.month, 2) \o "-" \o ZeroPad(t.day, 2) \o "T"
    \o ZeroPad(t.hour, 2) \o ":" \o ZeroPad(t.min, 2) \o ":" \o ZeroPad(t.sec, 2) \o "Z"

\* The encoding of a float32: the shortest decimal that reads back as it.
FloatText(x) ==
  (IF x.neg THEN "-" ELSE "") \o Itoa(x.int) \o (IF x.frac = "" THEN "" ELSE "." \o x.frac)

\* The encoding of one character of a string: the quote and the backslash
\* are escaped, a byte that is no valid UTF-8 is written as the escape of
\* U+FFFD, and <, > and & are written as they are.
EscapeChar(c) ==
  CASE c = "\"" -> "\\\""
    [] c = "\\" -> "\\\\"
    [] c = BadByte -> "\\ufffd"
    [] OTHER -> c

RECURSIVE Escape(_)
Escape(s) ==
  IF Len(s) = 0 THEN ""
  ELSE IF Len(s) = 1 THEN EscapeChar(s)
  ELSE Escape(SubSeq(s, 1, Len(s) \div 2)) \o Escape(SubSeq(s, Len(s) \div 2 + 1, Len(s)))

\* The texts joined with commas.
RECURSIVE Join(_, _)
Join(ts, j) ==
  IF j > Len(ts) THEN ""
  ELSE IF j = Len(ts) THEN ts[j]
  ELSE ts[j] \o "," \o Join(ts, j + 1)

\* omitempty leaves out false, 0 and the empty string.
IsEmptyValue(type, v) ==
  CASE type = "string" -> v = ""
    [] type \in {"int", "uint"} -> v = 0
    [] type = "bool" -> v = FALSE
    [] type = "float32" -> v.int = 0 /\ v.frac = ""
    [] OTHER -> FALSE

Kept(type, v) ==
  SelectSeq(Fields[type], LAMBDA f : ~(f[4] /\ IsEmptyValue(f[3], v[f[1]])))

RECURSIVE EncodeValue(_, _)
EncodeValue(type, v) ==
  CASE type = "string" -> "\"" \o Escape(v) \o "\""
    [] type \in {"int", "uint"} -> Itoa(v)
    [] type = "bool" -> (IF v THEN "true" ELSE "false")
    [] type = "float32" -> FloatText(v)
    [] OTHER ->
         LET fs == Kept(type, v)
         IN  "{" \o Join([j \in 1..Len(fs) |->
                            "\"" \o fs[j][2] \o "\":" \o EncodeValue(fs[j][3], v[fs[j][1]])], 1)
               \o "}"

\* The members of the embedded Meta come first, promoted into the object of
\* the message.
EncodeMessage(m) ==
  LET meta == "\"time\":\"" \o TimeText(m.Meta.Time) \o "\",\"type\":"
                \o EncodeValue("string", m.Meta.Type)
      rest == EncodeValue(m.struct, m)
  IN  IF rest = "{}" THEN "{" \o meta \o "}"
      ELSE "{" \o meta \o "," \o SubSeq(rest, 2, Len(rest))

\* src/csgolog.go:588-595
ToJSON(m) == EncodeMessage(m) \o "\n"

(***************************************************************************)
(* json.Unmarshal of a text into the struct of a variant: the text is read *)
(* as a tree of values, and the values are stored into the fields by the   *)
(* keys of their tags.  The text holds no insignificant white space but    *)
(* the line feed the encoder ends it with.                                 *)
(***************************************************************************)
\* The characters of t from offset a to b that t has.
Slice(t, a, b) == SubSeq(t, IF a < 1 THEN 1 ELSE a, IF b > Len(t) THEN Len(t) ELSE b)
ByteAt(t, i) == Slice(t, i, i)

\* The number of backslashes in a row just before offset j of t.
BackslashRun(t, j) ==
  LET runs == {n \in 0..(j - 1) : \A k \in 1..n : ByteAt(t, j - k) = "\\"}
  IN  CHOOSE n \in runs : \A m \in runs : m <= n

\* The backslash at j begins an escape; the quote at j ends a string.
EscapeStart(t, j) == ByteAt(t, j) = "\\" /\ BackslashRun(t, j) % 2 = 0
ClosingQuote(t, j) == ByteAt(t, j) = "\"" /\ BackslashRun(t, j) % 2 = 0

\* The character at j is part of an escape that began before it.
Escaped(t, j) ==
  \/ j > 1 /\ EscapeStart(t, j - 1)
  \/ \E k \in 2..5 : j > k /\ EscapeStart(t, j - k) /\ ByteAt(t, j - k + 1) = "u"

\* What the character at j of a string body gives once decoded.
DecodedAt(t, j) ==
  IF Escaped(t, j) THEN ""
  ELSE IF ~EscapeStart(t, j) THEN ByteAt(t, j)
  ELSE IF ByteAt(t, j + 1) = "u"
       THEN (IF Slice(t, j + 2, j + 5) = "fffd" THEN RuneError ELSE Slice(t, j, j + 5))
  ELSE ByteAt(t, j + 1)

RECURSIVE Unescape(_, _, _)
Unescape(t, lo, hi) ==
  IF lo > hi THEN ""
  ELSE IF lo = hi THEN DecodedAt(t, lo)
  ELSE Unescape(t, lo, (lo + hi) \div 2) \o Unescape(t, (lo + hi) \div 2 + 1, hi)

\* The least offset from i on that satisfies P, and Len(t) + 1 without one.
Least(S, none) == IF S = {} THEN none ELSE CHOOSE j \in S : \A k \in S : j <= k

NumberChars == Digit \cup {"-", "+", ".", "e", "E"}

BadValue == [ok |-> FALSE, k |-> "bad", n |-> 0]

\* The value that begins at offset i of t and the offset after it.  An
\* object is a function from its keys to its values; of two members with
\* the same key the later one is kept.
RECURSIVE ParseValue(_, _)
RECURSIVE ParseMembers(_, _, _)
ParseValue(t, i) ==
  LET c == ByteAt(t, i)
  IN  CASE c = "\"" ->
             LET e == Least({j \in (i + 1)..Len(t) : ClosingQuote(t, j)}, 0)
             IN  IF e = 0 THEN BadValue
                 ELSE [ok |-> TRUE, k |-> "string", s |-> Unescape(t, i + 1, e - 1), n |-> e + 1]
        [] c = "{" ->
             IF ByteAt(t, i + 1) = "}" THEN [ok |-> TRUE, k |-> "object", m |-> <<>>, n |-> i + 2]
             ELSE ParseMembers(t, i + 1, <<>>)
        [] Slice(t, i, i + 3) = "true" -> [ok |-> TRUE, k |-> "bool", b |-> TRUE, n |-> i + 4]
        [] Slice(t, i, i + 4) = "false" -> [ok |-> TRUE, k |-> "bool", b |-> FALSE, n |-> i + 5]
        [] Slice(t, i, i + 3) = "null" -> [ok |-> TRUE, k |-> "null", n |-> i + 4]
        [] c \in Digit \cup {"-"} ->
             LET e == Least({j \in i..Len(t) : ByteAt(t, j) \notin NumberChars}, Len(t) + 1)
             IN  [ok |-> TRUE, k |-> "number", s |-> Slice(t, i, e - 1), n |-> e]
        [] OTHER -> BadValue

ParseMembers(t, i, acc) ==
  LET key == ParseValue(t, i)
  IN  IF ~key.ok \/ key.k # "string" \/ ByteAt(t, key.n) # ":" THEN BadValue
      ELSE LET val == ParseValue(t, key.n + 1)
               all == (key.s :> [x \in {"k", "s", "b", "m"} \cap DOMAIN val |-> val[x]]) @@ acc
           IN  IF ~val.ok THEN BadValue
               ELSE IF ByteAt(t, val.n) = "}"
                    THEN [ok |-> TRUE, k |-> "object", m |-> all, n |-> val.n + 1]
               ELSE IF ByteAt(t, val.n) = "," THEN ParseMembers(t, val.n + 1, all)
               ELSE BadValue

\* The zero value of a type.
RECURSIVE Zero(_)
Zero(type) ==
  CASE type = "string" -> ""
    [] type \in {"int", "uint"} -> 0
    [] type = "bool" -> FALSE
    [] type = "float32" -> Float32(FALSE, 0, "")
    [] OTHER -> [f \in {x[1] : x \in FieldsOf(type)} |->
                   Zero((CHOOSE x \in FieldsOf(type) : x[1] = f)[3])]

\* The value val can be stored into a field of the type.
RECURSIVE Fits(_, _)
Fits(type, val) ==
  CASE val.k = "null" -> TRUE
    [] type = "string" -> val.k = "string"
    [] type = "int" -> val.k = "number" /\ Atoi(val.s).err = "nil"
    [] type = "uint" -> val.k = "number" /\ Atoi(val.s).err = "nil" /\ Atoi(val.s).i >= 0
    [] type = "bool" -> val.k = "bool"
    [] type = "float32" -> val.k = "number" /\ ParseFloat(val.s).err = "nil"
    [] OTHER -> /\ val.k = "object"
                /\ \A x \in FieldsOf(type) :
                     x[2] \in DOMAIN val.m => Fits(x[3], val.m[x[2]])

\* The value of the type that storing val into its zero value gives.
RECURSIVE Store(_, _)
Store(type, val) ==
  CASE val.k = "null" -> Zero(type)
    [] type = "string" -> val.s
    [] type \in {"int", "uint"} -> Atoi(val.s).i
    [] type = "bool" -> val.b
    [] type = "float32" -> ParseFloat(val.s).f
    [] OTHER -> [f \in {x[1] : x \in FieldsOf(type)} |->
                   LET x == CHOOSE x \in FieldsOf(type) : x[1] = f
                   IN  IF x[2] \in DOMAIN val.m THEN Store(x[3], val.m[x[2]])
                       ELSE Zero(x[3])]

\* time.Time.UnmarshalJSON of an RFC 3339 text in UTC.
TimeOfText(s) ==
  [year |-> Num(s, 1, 4), month |-> Num(s, 6, 7), day |-> Num(s, 9, 10),
   hour |-> Num(s, 12, 13), min |-> Num(s, 15, 16), sec |-> Num(s, 18, 19)]

\* json.Unmarshal([]byte(text), &v), v being a zero value of the variant.
Unmarshal(text, variant) ==
  LET val == ParseValue(text, 1)
  IN  IF ~val.ok \/ val.k # "object" \/ Slice(text, val.n, Len(text)) \notin {"", "\n"}
        THEN [v |-> [struct |-> variant], err |-> "invalid character"]
      ELSE IF ~Fits(variant, val) \/ ~("time" \in DOMAIN val.m /\ "type" \in DOMAIN val.m)
        THEN [v |-> [struct |-> variant], err |-> "cannot unmarshal"]
      ELSE [v |-> [struct |-> variant,
                   Meta |-> [Time |-> TimeOfText(val.m["time"].s), Type |-> val.m["type"].s]]
                    @@ Store(variant, val),
            err |-> "nil"]

(***************************************************************************)
(* The lines parsed.  A line holds no line break: the log stream is cut    *)
(* into lines before Parse is called.                                      *)
(***************************************************************************)
RECURSIVE Xs(_)
Xs(n) == IF n = 0 THEN "" ELSE "x" \o Xs(n - 1)
\* Text put before a timestamp, and before or after a message.
Pads == {Xs(n) : n \in 0..MaxPad}

RECURSIVE DigitStrs(_)
DigitStrs(n) == IF n = 0 THEN {""} ELSE {d \o s : d \in {"1", "9"}, s \in DigitStrs(n - 1)}
\* The digit strings drawn for a numeric field.
NumStrs == UNION {DigitStrs(n) : n \in 1..MaxDigits} \cup {"0", "07"}

ValidStamp == "L 10/15/2022 - 18:30:30: "

\* Prefixes of the form L MM/DD/YYYY - HH:MM:SS: that name a date and time.
ValidPrefixes ==
  {ValidStamp, "L 02/29/2024 - 00:00:00: ", "L 12/31/1999 - 23:59:59: "}

\* Prefixes of that form that name no date or time.
InvalidPrefixes ==
  {"L 13/15/2022 - 18:30:30: ", "L 00/15/2022 - 18:30:30: ",
   "L 10/32/2022 - 18:30:30: ", "L 02/29/2023 - 18:30:30: ",
   "L 04/31/2022 - 18:30:30: ", "L 10/15/2022 - 24:30:30: ",
   "L 10/15/2022 - 18:60:30: ", "L 10/15/2022 - 18:30:60: "}

\* Prefixes not of that form.
MalformedPrefixes ==
  {"", "L ", "10/15/2022 - 18:30:30: ", "l 10/15/2022 - 18:30:30: ",
   "L  10/15/2022 - 18:30:30: ", "L 1/15/2022 - 18:30:30: ",
   "L 10/15/22 - 18:30:30: ", "L 10-15-2022 - 18:30:30: ",
   "L 10/15/2022 18:30:30: ", "L 10/15/2022 - 18:30:30:",
   "L 10/15/2022 - 18.30.30: ", "L 10/15/20222 - 18:30:30: ",
   "L 10/15/2022 - 18:30:3x: "}

\* Payloads put after each of the prefixes.
PrefixedTexts ==
  {"", "hello", "World triggered \"Round_Start\"", "L 11/16/2023 - 19:31:32: nested"}

PrefixLines ==
  {a \o p \o t : a \in Pads,
                 p \in ValidPrefixes \cup InvalidPrefixes \cup MalformedPrefixes,
                 t \in PrefixedTexts}

PlayerText(name, id, steam, side) ==
  "\"" \o name \o "<" \o id \o "><" \o steam \o "><" \o side \o ">\""
A1 == PlayerText("a", "1", "S:1", "CT")
V1 == PlayerText("b", "2", "BOT", "TERRORIST")

\* One message for each pattern of the table.
Canon ==
  [ServerMessagePattern |-> "server_message: \"quit\"",
   FreezTimeStartPattern |-> "Starting Freeze period",
   WorldMatchStartPattern |-> "World triggered \"Match_Start\" on \"de_dust2\"",
   WorldRoundStartPattern |-> "World triggered \"Round_Start\"",
   WorldRoundRestartPattern |-> "World triggered \"Restart_Round_(1_second)\"",
   WorldRoundEndPattern |-> "World triggered \"Round_End\"",
   WorldGameCommencingPattern |-> "World triggered \"Game_Commencing\"",
   TeamScoredPattern |-> "Team \"CT\" scored \"7\" with \"4\" players",
   TeamNoticePattern |-> "Team \"TERRORIST\" triggered \"SFUI_Notice_Bomb\" (CT \"1\") (T \"2\")",
   PlayerConnectedPattern |-> "\"a<1><S:1><>\" connected, address \"1.2.3.4:5\"",
   PlayerDisconnectedPattern |-> A1 \o " disconnected (reason \"Kicked\")",
   PlayerEnteredPattern |-> "\"a<1><S:1><>\" entered the game",
   PlayerBannedPattern |-> "Banid: \"a<1><S:1><>\" was banned \"5 min\" by \"Console\"",
   PlayerSwitchedPattern |-> "\"a<1><S:1>\" switched from team <Unassigned> to <CT>",
   PlayerSayPattern |-> A1 \o " say \"gg\"",
   PlayerPurchasePattern |-> A1 \o " purchased \"ak47\"",
   PlayerKillPattern |-> A1 \o " [1 -2 3] killed " \o V1 \o " [4 5 6] with \"ak47\"",
   PlayerKillAssistPattern |-> A1 \o " assisted killing " \o V1,
   PlayerAttackPattern |-> A1 \o " [1 -2 3] attacked " \o V1 \o " [4 5 6] with \"ak47\""
      \o " (damage \"27\") (damage_armor \"3\") (health \"73\") (armor \"96\")"
      \o " (hitgroup \"left arm\")",
   PlayerKilledBombPattern |-> A1 \o " [1 -2 3] was killed by the bomb.",
   PlayerKilledSuicidePattern |-> A1 \o " [1 -2 3] committed suicide with \"world\"",
   PlayerPickedUpPattern |-> A1 \o " picked up \"knife\"",
   PlayerDroppedPattern |-> A1 \o " dropped \"knife\"",
   PlayerMoneyChangePattern |->
      A1 \o " money change 90-20 = $70 (tracked) (purchase: weapon_ak47)",
   PlayerBombGotPattern |-> A1 \o " triggered \"Got_The_Bomb\"",
   PlayerBombPlantedPattern |-> A1 \o " triggered \"Planted_The_Bomb\"",
   PlayerBombDroppedPattern |-> A1 \o " triggered \"Dropped_The_Bomb\"",
   PlayerBombBeginDefusePattern |-> A1 \o " triggered \"Begin_Bomb_Defuse_With_Kit\"",
   PlayerBombDefusedPattern |-> A1 \o " triggered \"Defused_The_Bomb\"",
   PlayerThrewPattern |-> A1 \o " threw flashbang [1 -2 3] flashbang entindex 12)",
   PlayerBlindedPattern |-> A1 \o " blinded for 1.5 by " \o V1 \o " from flashbang entindex 12",
   ProjectileSpawnedPattern |->
      "Molotov projectile spawned at 1.5 -2.25 3.0, velocity 0.5 1.0 -1.0",
   GameOverPattern |-> "Game Over: competitive mg_active de_dust2 score 16:14 after 45 min",
   ServerCvarPattern |-> "server_cvar: \"mp_freezetime\" \"15\"",
   Get5EventPattern |-> "get5_event: {\"matchid\":\"7\",\"params\":"
      \o "{\"map_number\":1,\"map_name\":\"de_dust2\"},\"event\":\"going_live\"}",
   RconEventPattern |-> "rcon from \"1.2.3.4:56\": command \"status\"",
   PlayerKillOtherPattern |->
      A1 \o " [1 -2 3] killed other \"chicken<99>\" [4 5 6] with \"knife\""]

\* Messages with text before them or after them.
PaddedMessages ==
  {a \o Canon[p] : p \in DOMAIN Canon, a \in Pads} \cup
  {Canon[p] \o b : p \in DOMAIN Canon, b \in Pads}

\* Texts no pattern of the table is written for.
OtherTexts ==
  {" ", "hello world", "World triggered \"Round_Draw\"",
   "Team \"CT\" scored \"\" with \"5\" players",
   A1 \o " say gg", "server_cvar: mp_freezetime 15",
   "rcon from \"1.2.3.4\": command \"status\"",
   "\"a<1><S:1><Spectator>\" purchased \"ak47\"",
   "\"a<1><S:1><>\" connected",
   "get5_event: {\"matchid\":\"7\",\"params\":{},\"event\":\"warmup\"}"}

\* Messages whose numeric text is drawn from NumStrs.
NumberMessages ==
  UNION {{"Team \"CT\" scored \"" \o n \o "\" with \"4\" players",
          "World triggered \"Restart_Round_(" \o n \o "_second)\"",
          "rcon from \"1.2.3.4:" \o n \o "\": command \"status\"",
          A1 \o " [-" \o n \o " 0 " \o n \o "] was killed by the bomb."} : n \in NumStrs}

\* The texts drawn for a field read as a float.
FloatStrs == {"1.5", "12", "0.25", "1.50", "1.", ".5", ".", "1.2.3", "99"}

FloatMessages ==
  {A1 \o " blinded for " \o f \o " by " \o V1 \o " from flashbang entindex 12"
     : f \in FloatStrs}

\* Messages with and without their optional parts.
OptionMessages ==
  {A1 \o " money change 90+10 = $100 (tracked)",
   A1 \o " money change 50-20 = $30 (tracked) (purchase: item_kevlar)",
   A1 \o " threw smokegrenade [1 -2 3]",
   A1 \o " threw flashbang [1 -2 3] flashbang entindex 7)",
   A1 \o " say_team \"rush b\"",
   A1 \o " say \"\"",
   A1 \o " triggered \"Begin_Bomb_Defuse_Without_Kit\"",
   A1 \o " [1 -2 3] killed " \o V1 \o " [4 5 6] with \"ak47\" (headshot)",
   A1 \o " [1 -2 3] killed " \o V1 \o " [4 5 6] with \"ak47\" (penetrated)",
   A1 \o " [1 -2 3] killed " \o V1 \o " [4 5 6] with \"ak47\" (headshot penetrated)",
   A1 \o " [1 -2 3] killed " \o V1 \o " [4 5 6] with \"ak47\" (headshot throughsmoke)",
   A1 \o " [1 -2 3] killed " \o V1 \o " [4 5 6] with \"ak47\" (penetrated headshot)",
   A1 \o " [1 -2 3] killed " \o V1 \o " [4 5 6] with \"ak47\"(penetrated)",
   A1 \o " [1 -2 3] killed " \o V1 \o " [4 5 6] with \"ak47\" ()",
   "\"a<1><S:1><Unassigned>\" disconnected (reason \"Disconnect\")",
   "\"a<1><S:1><>\" disconnected (reason \"Disconnect\")",
   "\"a<1><S:1><Unassigned>\" dropped \"knife\"",
   "\"a<1><S:1>\" switched from team <CT> to <Spectator>",
   "\"a b<c><1><[U:1:2]><CT>\" say \"<&>\"",
   "Team \"TERRORIST\" scored \"3\" with \"5\" players"}

\* The params texts of a get5_event message.
ParamsTexts ==
  {"{}", "null", "{\"map_name\":\"de_dust2\",\"team1_score\":7}",
   "{\"map_number\":\"one\"}", "{\"map_number\":199}", "{bad}", "", "[1]",
   "{\"site\":1,\"site\":2}"}

Get5Text(id, params, event) ==
  "get5_event: {\"matchid" \o id \o ",\"params\":" \o params
    \o ",\"event\":\"" \o event \o "\"}"

Get5Messages ==
  {Get5Text("\":\"7\"", p, "round_end") : p \in ParamsTexts} \cup
  {Get5Text("_x\":\"7\"", p, "map_end") : p \in {"{}", "{bad}"}}

\* Messages whose free text (chat, cvar value, player name) holds a message.
NestedMessages ==
  {A1 \o " say \"" \o Canon.WorldRoundStartPattern \o "\"",
   A1 \o " say_team \"Starting Freeze period\"",
   A1 \o " say \"" \o Canon.ServerCvarPattern \o "\"",
   "server_cvar: \"hostname\" \"World triggered \"Round_End\"\"",
   PlayerText("Starting Freeze period", "1", "S:1", "CT") \o " purchased \"ak47\"",
   PlayerText("a", "1", "S:1", "CT") \o " say \"" \o V1 \o " purchased \"ak47\"\"",
   "rcon from \"1.2.3.4:99999\": command \"say " \o Canon.WorldRoundEndPattern \o "\""}

\* Messages whose free text holds a byte that is no valid UTF-8, the
\* replacement character, a backslash or a quote.
ByteMessages ==
  {A1 \o " say \"caf" \o BadByte \o "\"",
   A1 \o " say \"caf" \o RuneError \o "\"",
   A1 \o " say \"a\\b \"c\" \\\"",
   PlayerText("a" \o BadByte, "1", "S:1", "CT") \o " purchased \"ak47\"",
   "hello " \o BadByte,
   "C:\\csgo\\ \\ufffd"}

Payloads ==
  PaddedMessages \cup OtherTexts \cup NumberMessages \cup FloatMessages
    \cup OptionMessages \cup Get5Messages \cup NestedMessages \cup ByteMessages

Lines == PrefixLines \cup {ValidStamp \o p : p \in Payloads}

\* The lines parsed with a table of the caller.
TableLines ==
  {ValidStamp \o p : p \in {Canon.WorldRoundStartPattern, Canon.FreezTimeStartPattern,
                            Canon.PlayerSayPattern, Canon.RconEventPattern,
                            Canon.PlayerKillPattern, "hello", ""}}
    \cup {"x" \o ValidStamp \o "hello", "L 13/15/2022 - 18:30:30: hello", "hello"}

\* The tables a caller passes to ParseWithPatterns, and DefaultPatterns.  A
\* Go map is held by reference: a call holds the name of its table.
Tables ==
  [DefaultPatterns |-> DefaultPatterns,
   Empty |-> [p \in {} |-> ""],
   RoundStartOnly |-> [p \in {"WorldRoundStartPattern"} |-> "NewWorldRoundStart"],
   SayAndRcon |-> [p \in {"PlayerSayPattern", "RconEventPattern"} |->
                     DefaultPatterns[p]],
   Swapped |-> [WorldRoundStartPattern |-> "NewFreezTimeStart",
                FreezTimeStartPattern |-> "NewWorldRoundStart",
                PlayerKillPattern |-> "NewPlayerKilledBomb"]]

(***************************************************************************)
(* The calls.  A goroutine g runs one call of Parse or ParseWithPatterns.  *)
(***************************************************************************)
VARIABLES
  stdlog,    \* what has been written to the standard logger of package log
  fn,        \* fn[g]: the function goroutine g calls
  line,      \* line[g]: the argument line
  patterns,  \* patterns[g]: the argument patterns of ParseWithPatterns
  pc,        \* pc[g]: where goroutine g is in the call
  result,    \* result[g]: LogLinePattern.FindStringSubmatch(line)
  tim,       \* tim[g]: the local ti
  matched,   \* matched[g]: the keys of patterns whose pattern matches result[2]
  hit,       \* hit[g]: the key re at which the range returned, and its submatch
  ret,       \* ret[g]: the (Message, error) returned
  buf        \* buf[g]: buf.String() as ToJSON returned it, "" before the call

vars == <<stdlog, fn, line, patterns, pc, result, tim, matched, hit, ret, buf>>

\* The goroutines that run a call.
Goroutines == DOMAIN pc

NilMessage == [struct |-> "nil"]
\* src/csgolog.go:54
ErrorNoMatch == "no match"
ZeroTime == [year |-> 1, month |-> 1, day |-> 1, hour |-> 0, min |-> 0, sec |-> 0]
NoHit == [re |-> "", r |-> <<>>]

\* s[k:] of a slice s
SliceFrom(s, k) == [j \in 0..(Cardinality(DOMAIN s) - 1 - k) |-> s[j + k]]

\* The calls made: Parse on each line, ParseWithPatterns on each table.
Calls ==
  {[fn |-> "Parse", line |-> l, patterns |-> "nil"] : l \in Lines} \cup
  {[fn |-> "ParseWithPatterns", line |-> l, patterns |-> t]
     : l \in TableLines, t \in DOMAIN Tables}

InitCalls(G, C) ==
  /\ stdlog = <<>>
  /\ \E c \in [G -> C] :
       /\ fn = [g \in G |-> c[g].fn]
       /\ line = [g \in G |-> c[g].line]
       /\ patterns = [g \in G |-> c[g].patterns]
       /\ pc = [g \in G |-> c[g].fn]
  /\ result = [g \in G |-> <<>>]
  /\ tim = [g \in G |-> ZeroTime]
  /\ matched = [g \in G |-> {}]
  /\ hit = [g \in G |-> NoHit]
  /\ ret = [g \in G |-> [msg |-> NilMessage, err |-> "nil"]]
  /\ buf = [g \in G |-> ""]

Init == InitCalls({1}, Calls)

\* src/csgolog.go:552-554
Parse(g) ==
  /\ g \in Goroutines
  /\ pc[g] = "Parse"
  /\ patterns' = [patterns EXCEPT ![g] = "DefaultPatterns"]
  /\ pc' = [pc EXCEPT ![g] = "ParseWithPatterns"]
  /\ UNCHANGED <<stdlog, fn, line, result, tim, matched, hit, ret, buf>>

\* src/csgolog.go:559-574: the match of the line and the parse of its time
ParseWithPatterns(g) ==
  /\ g \in Goroutines
  /\ pc[g] = "ParseWithPatterns"
  /\ \E res \in {FindStringSubmatch(LogLinePattern, line[g])} :
       IF res = <<>>
       THEN /\ ret' = [ret EXCEPT ![g] = [msg |-> NilMessage, err |-> ErrorNoMatch]]
            /\ pc' = [pc EXCEPT ![g] = "done"]
            /\ UNCHANGED <<result, tim>>
       ELSE \E t \in {timeParse(res[1])} :
              IF t.err # "nil"
              THEN /\ ret' = [ret EXCEPT ![g] = [msg |-> NilMessage, err |-> t.err]]
                   /\ pc' = [pc EXCEPT ![g] = "done"]
                   /\ UNCHANGED <<result, tim>>
              ELSE /\ result' = [result EXCEPT ![g] = res]
                   /\ tim' = [tim EXCEPT ![g] = t.t]
                   /\ pc' = [pc EXCEPT ![g] = "range"]
                   /\ UNCHANGED ret
  /\ UNCHANGED <<stdlog, fn, line, patterns, matched, hit, buf>>

\* src/csgolog.go:577-578: the keys re of the table whose pattern matches the
\* text, each with its submatch.
Matching(table, text) ==
  {x \in {<<p, FindStringSubmatch(MustCompile(p), text)>> : p \in DOMAIN table}
     : x[2] # <<>>}

\* src/csgolog.go:576-585: the range over the map patterns.  The order of a
\* range over a map is not specified: the loop returns at any key whose
\* pattern matches, and falls through to NewUnknown when none does.
RangePatterns(g) ==
  /\ g \in Goroutines
  /\ pc[g] = "range"
  /\ \E hits \in {Matching(Tables[patterns[g]], result[g][2])} :
       /\ matched' = [matched EXCEPT ![g] = {x[1] : x \in hits}]
       /\ IF hits = {}
          THEN /\ ret' = [ret EXCEPT ![g] =
                            [msg |-> NewUnknown(tim[g], SliceFrom(result[g], 1)),
                             err |-> "nil"]]
               /\ pc' = [pc EXCEPT ![g] = "done"]
               /\ UNCHANGED hit
          ELSE /\ \E x \in hits : hit' = [hit EXCEPT ![g] = [re |-> x[1], r |-> x[2]]]
               /\ pc' = [pc EXCEPT ![g] = "fun"]
               /\ UNCHANGED ret
  /\ UNCHANGED <<stdlog, fn, line, patterns, result, tim, buf>>

\* CallFun gone wrong: the extractor is looked up in DefaultPatterns, not in
\* the table of the call.
CallFunOfDefault(g) ==
  /\ g \in Goroutines
  /\ pc[g] = "fun"
  /\ LET fun == DefaultPatterns[hit[g].re]
     IN  /\ ret' = [ret EXCEPT ![g] =
                      [msg |-> MessageFunc(fun, tim[g], hit[g].r), err |-> "nil"]]
         /\ stdlog' = IF fun = "NewGet5Event" THEN stdlog \o Get5EventLog(hit[g].r)
                      ELSE stdlog
  /\ pc' = [pc EXCEPT ![g] = "done"]
  /\ UNCHANGED <<fn, line, patterns, result, tim, matched, hit, buf>>

\* src/csgolog.go:579: return fun(ti, result), nil
CallFun(g) ==
  /\ g \in Goroutines
  /\ pc[g] = "fun"
  /\ LET fun == Tables[patterns[g]][hit[g].re]
     IN  /\ ret' = [ret EXCEPT ![g] =
                      [msg |-> MessageFunc(fun, tim[g], hit[g].r), err |-> "nil"]]
         /\ stdlog' = IF fun = "NewGet5Event" THEN stdlog \o Get5EventLog(hit[g].r)
                      ELSE stdlog
  /\ pc' = [pc EXCEPT ![g] = "done"]
  /\ UNCHANGED <<fn, line, patterns, result, tim, matched, hit, buf>>

\* src/csgolog.go:588-595: the caller passes the message it was returned to
\* ToJSON.
CallToJSON(g) ==
  /\ g \in Goroutines
  /\ pc[g] = "done" /\ ret[g].err = "nil"
  /\ buf[g] = ""
  /\ buf' = [buf EXCEPT ![g] = ToJSON(ret[g].msg)]
  /\ UNCHANGED <<stdlog, fn, line, patterns, pc, result, tim, matched, hit, ret>>

Next ==
  \E g \in 1..NumGoroutines :
    Parse(g) \/ ParseWithPatterns(g) \/ RangePatterns(g) \/ CallFun(g) \/ CallToJSON(g)

Spec == Init /\ [][Next]_vars

\* Calls of Parse that run at the same time, one in each goroutine.
ConcLines ==
  {ValidStamp \o "hello",
   ValidStamp \o A1 \o " say \"Starting Freeze period\"",
   ValidStamp \o Get5Text("\":\"7\"", "{bad}", "round_end"),
   "L 13/15/2022 - 18:30:30: hello"}

ConcCalls == {[fn |-> "Parse", line |-> l, patterns |-> "nil"] : l \in ConcLines}

InitConc == InitCalls(1..NumGoroutines, ConcCalls)

SpecConc == InitConc /\ [][Next]_vars

(***************************************************************************)
(* What a line says, read off the line itself.                             *)
(***************************************************************************)
\* The form of the prefix, d standing for a digit.
StampShape == "L dd/dd/dddd - dd:dd:dd: "

\* The text l has a timestamp of that form from offset k on.
HasStampAt(l, k) ==
  /\ k + Len(StampShape) <= Len(l)
  /\ \A j \in 1..Len(StampShape) :
       IF CharAt(StampShape, j) = "d" THEN CharAt(l, k + j) \in Digit
       ELSE CharAt(l, k + j) = CharAt(StampShape, j)

BeginsWithPrefix(l) == HasStampAt(l, 0)

\* The text after the prefix.
PayloadOf(l) == SubSeq(l, Len(StampShape) + 1, Len(l))

TwoDigits(l, a) == 10 * DigitVal[CharAt(l, a)] + DigitVal[CharAt(l, a + 1)]

\* The date and time written in the timestamp at offset k of l.
WrittenTime(l, k) ==
  [year |-> 100 * TwoDigits(l, k + 9) + TwoDigits(l, k + 11),
   month |-> TwoDigits(l, k + 3), day |-> TwoDigits(l, k + 6),
   hour |-> TwoDigits(l, k + 16), min |-> TwoDigits(l, k + 19),
   sec |-> TwoDigits(l, k + 22)]

LeapYear(y) == (y % 4 = 0 /\ y % 100 # 0) \/ y % 400 = 0
MonthDays(y) ==
  <<31, IF LeapYear(y) THEN 29 ELSE 28, 31, 30, 31, 30, 31, 31, 30, 31, 30, 31>>

\* t is a date of the calendar and a time of the day.
IsDateTime(t) ==
  /\ t.month \in 1..12
  /\ t.day \in 1..MonthDays(t.year)[t.month]
  /\ t.hour \in 0..23 /\ t.min \in 0..59 /\ t.sec \in 0..59

\* The line begins with a well-formed prefix that names a date and time.
ValidLine(l) == BeginsWithPrefix(l) /\ IsDateTime(WrittenTime(l, 0))

\* Goroutine g has returned from a call of Parse.
Returned(g) == pc[g] = "done"
ParseReturned(g) == fn[g] = "Parse" /\ pc[g] = "done"

(***************************************************************************)
(* The claims.                                                             *)
(***************************************************************************)
\* C1: for a line with a well-formed, calendrically valid prefix whose
\* payload no pattern of the default table matches, Parse returns a nil
\* error and an Unknown whose Raw is the payload, character for character:
\* nothing of the prefix in it, nothing of the payload dropped.
UnknownKeepsPayload ==
  \A g \in Goroutines :
    (/\ ParseReturned(g)
     /\ ValidLine(line[g])
     /\ Matching(DefaultPatterns, PayloadOf(line[g])) = {})
    => /\ ret[g].err = "nil"
       /\ ret[g].msg = [struct |-> "Unknown",
                        Meta |-> [Time |-> WrittenTime(line[g], 0), Type |-> "Unknown"],
                        Raw |-> PayloadOf(line[g])]

\* A line of C1 has been parsed: its payload itself begins with a timestamp.
UnknownKeepsPayloadWitness ==
  \E g \in Goroutines :
    /\ ParseReturned(g)
    /\ ValidLine(line[g])
    /\ HasStampAt(PayloadOf(line[g]), 0)
    /\ Matching(DefaultPatterns, PayloadOf(line[g])) = {}
    /\ ret[g].msg.struct = "Unknown"
    /\ ret[g].msg.Raw = PayloadOf(line[g])

\* C2: for a line that does not begin with a prefix of the form
\* L MM/DD/YYYY - HH:MM:SS: , Parse returns ErrorNoMatch and a nil Message,
\* also where such a timestamp stands after other leading characters.
NoPrefixNoMatch ==
  \A g \in Goroutines :
    (ParseReturned(g) /\ ~BeginsWithPrefix(line[g]))
    => ret[g] = [msg |-> NilMessage, err |-> ErrorNoMatch]

\* C3: Parse returns either a Message and a nil error or a nil Message and
\* an error, and it returns an error exactly when the line does not begin
\* with a well-formed prefix or the prefix names no date and time.
ErrorIffBadPrefix ==
  \A g \in Goroutines :
    ParseReturned(g)
    => /\ (ret[g].msg = NilMessage) <=> (ret[g].err # "nil")
       /\ (ret[g].err # "nil") <=> ~ValidLine(line[g])

\* C4: Parse is deterministic: two calls of Parse on the same line with the
\* default table return equal results, whatever the order in which the
\* entries of the table are visited.
ParseDeterministic ==
  \A g \in Goroutines : \A h \in Goroutines :
    (ParseReturned(g) /\ ParseReturned(h) /\ line[g] = line[h]) => ret[g] = ret[h]

\* C5: the patterns of the default table are mutually exclusive under the
\* matching the dispatch performs (a match anywhere in the payload): at most
\* one of the 37 patterns matches the payload of a line.
PatternsExclusive ==
  \A g \in Goroutines : fn[g] = "Parse" => Cardinality(matched[g]) <= 1

\* The table a call dispatches on according to the specification.
CallTable(g) == IF fn[g] = "Parse" THEN DefaultPatterns ELSE Tables[patterns[g]]

\* The patterns of table T that match the text, each with its capture list.
Recognized(T, text) ==
  {x \in {<<p, FindStringSubmatch(MustCompile(p), text)>> : p \in DOMAIN T} : x[2] # <<>>}

\* The events the specification allows for a valid line l and a table T.
Outcomes(l, T) ==
  LET rec == Recognized(T, PayloadOf(l))
  IN  IF rec = {}
      THEN {[struct |-> "Unknown",
             Meta |-> [Time |-> WrittenTime(l, 0), Type |-> "Unknown"],
             Raw |-> PayloadOf(l)]}
      ELSE {MessageFunc(T[x[1]], WrittenTime(l, 0), x[2]) : x \in rec}

\* C6: ParseWithPatterns(line, T) consults only T: for a line with a valid
\* prefix the event returned is the output of an extractor that T pairs with
\* a pattern matching the payload, applied to the time of the prefix and the
\* captures of that pattern, or Unknown with the payload when no pattern of
\* T matches; and Parse(line) is ParseWithPatterns(line, DefaultPatterns).
OnlyTableConsulted ==
  \A g \in Goroutines :
    (Returned(g) /\ ValidLine(line[g]))
    => /\ ret[g].err = "nil"
       /\ ret[g].msg \in Outcomes(line[g], CallTable(g))

\* A call of C6 has returned: its table pairs the round-start pattern with
\* another extractor than the built-in table does, and the event is that
\* extractor's.
OnlyTableConsultedWitness ==
  \E g \in Goroutines :
    /\ Returned(g) /\ fn[g] = "ParseWithPatterns" /\ ValidLine(line[g])
    /\ patterns[g] = "Swapped"
    /\ hit[g].re = "WorldRoundStartPattern"
    /\ DefaultPatterns[hit[g].re] = "NewWorldRoundStart"
    /\ ret[g].msg.struct = "FreezTimeStart"

\* The text is a decimal integer: an optional sign and digits.
IsDecimal(v) ==
  LET ds == IF v # "" /\ CharAt(v, 1) \in {"+", "-"} THEN SubSeq(v, 2, Len(v)) ELSE v
  IN  ds # "" /\ \A j \in 1..Len(ds) : CharAt(ds, j) \in Digit

\* The number a digit string writes.
RECURSIVE DecimalValue(_)
DecimalValue(ds) ==
  IF ds = "" THEN 0
  ELSE 10 * DecimalValue(SubSeq(ds, 1, Len(ds) - 1)) + DigitVal[CharAt(ds, Len(ds))]

\* The integer a decimal text writes.
IntegerOf(v) ==
  IF CharAt(v, 1) = "-" THEN 0 - DecimalValue(SubSeq(v, 2, Len(v)))
  ELSE IF CharAt(v, 1) = "+" THEN DecimalValue(SubSeq(v, 2, Len(v)))
  ELSE DecimalValue(v)

\* The text writes an integer of the range of int.
IsInt(v) == IsDecimal(v) /\ IntegerOf(v) \in MinInt..MaxInt

\* The sub-parse of the extractor of a get5_event or rcon match r fails.
SubParseFails(re, r) ==
  \/ re = "Get5EventPattern" /\ jsonUnmarshal(r[3], Get5EventParams).err # "nil"
  \/ re = "RconEventPattern" /\ ~IsInt(r[2])

NumericFields ==
  {
   <<"NewWorldRoundRestart", <<"Timeleft">>, 1, "toInt">>,
   <<"NewTeamScored", <<"Score">>, 2, "toInt">>,
   <<"NewTeamScored", <<"NumPlayers">>, 3, "toInt">>,
   <<"NewTeamNotice", <<"ScoreCT">>, 3, "toInt">>,
   <<"NewTeamNotice", <<"ScoreT">>, 4, "toInt">>,
   <<"NewPlayerConnected", <<"Player", "ID">>, 2, "toInt">>,
   <<"NewPlayerDisconnected", <<"Player", "ID">>, 2, "toInt">>,
   <<"NewPlayerEntered", <<"Player", "ID">>, 2, "toInt">>,
   <<"NewPlayerBanned", <<"Player", "ID">>, 2, "toInt">>,
   <<"NewPlayerSwitched", <<"Player", "ID">>, 2, "toInt">>,
   <<"NewPlayerSay", <<"Player", "ID">>, 2, "toInt">>,
   <<"NewPlayerPurchase", <<"Player", "ID">>, 2, "toInt">>,
   <<"NewPlayerKill", <<"Attacker", "ID">>, 2, "toInt">>,
   <<"NewPlayerKill", <<"AttackerPosition", "X">>, 5, "toInt">>,
   <<"NewPlayerKill", <<"AttackerPosition", "Y">>, 6, "toInt">>,
   <<"NewPlayerKill", <<"AttackerPosition", "Z">>, 7, "toInt">>,
   <<"NewPlayerKill", <<"Victim", "ID">>, 9, "toInt">>,
   <<"NewPlayerKill", <<"VictimPosition", "X">>, 12, "toInt">>,
   <<"NewPlayerKill", <<"VictimPosition", "Y">>, 13, "toInt">>,
   <<"NewPlayerKill", <<"VictimPosition", "Z">>, 14, "toInt">>,
   <<"NewPlayerKillAssist", <<"Attacker", "ID">>, 2, "toInt">>,
   <<"NewPlayerKillAssist", <<"Victim", "ID">>, 6, "toInt">>,
   <<"NewPlayerAttack", <<"Attacker", "ID">>, 2, "toInt">>,
   <<"NewPlayerAttack", <<"AttackerPosition", "X">>, 5, "toInt">>,
   <<"NewPlayerAttack", <<"AttackerPosition", "Y">>, 6, "toInt">>,
   <<"NewPlayerAttack", <<"AttackerPosition", "Z">>, 7, "toInt">>,
   <<"NewPlayerAttack", <<"Victim", "ID">>, 9, "toInt">>,
   <<"NewPlayerAttack", <<"VictimPosition", "X">>, 12, "toInt">>,
   <<"NewPlayerAttack", <<"VictimPosition", "Y">>, 13, "toInt">>,
   <<"NewPlayerAttack", <<"VictimPosition", "Z">>, 14, "toInt">>,
   <<"NewPlayerAttack", <<"Damage">>, 16, "toInt">>,
   <<"NewPlayerAttack", <<"DamageArmor">>, 17, "toInt">>,
   <<"NewPlayerAttack", <<"Health">>, 18, "toInt">>,
   <<"NewPlayerAttack", <<"Armor">>, 19, "toInt">>,
   <<"NewPlayerKilledBomb", <<"Player", "ID">>, 2, "toInt">>,
   <<"NewPlayerKilledBomb", <<"Position", "X">>, 5, "toInt">>,
   <<"NewPlayerKilledBomb", <<"Position", "Y">>, 6, "toInt">>,
   <<"NewPlayerKilledBomb", <<"Position", "Z">>, 7, "toInt">>,
   <<"NewPlayerKilledSuicide", <<"Player", "ID">>, 2, "toInt">>,
   <<"NewPlayerKilledSuicide", <<"Position", "X">>, 5, "toInt">>,
   <<"NewPlayerKilledSuicide", <<"Position", "Y">>, 6, "toInt">>,
   <<"NewPlayerKilledSuicide", <<"Position", "Z">>, 7, "toInt">>,
   <<"NewPlayerPickedUp", <<"Player", "ID">>, 2, "toInt">>,
   <<"NewPlayerDropped", <<"Player", "ID">>, 2, "toInt">>,
   <<"NewPlayerMoneyChange", <<"Player", "ID">>, 2, "toInt">>,
   <<"NewPlayerMoneyChange", <<"Equation", "A">>, 5, "toInt">>,
   <<"NewPlayerMoneyChange", <<"Equation", "B">>, 6, "toInt">>,
   <<"NewPlayerMoneyChange", <<"Equation", "Result">>, 7, "toInt">>,
   <<"NewPlayerBombGot", <<"Player", "ID">>, 2, "toInt">>,
   <<"NewPlayerBombPlanted", <<"Player", "ID">>, 2, "toInt">>,
   <<"NewPlayerBombDropped", <<"Player", "ID">>, 2, "toInt">>,
   <<"NewPlayerBombBeginDefuse", <<"Player", "ID">>, 2, "toInt">>,
   <<"NewPlayerBombDefused", <<"Player", "ID">>, 2, "toInt">>,
   <<"NewPlayerThrew", <<"Player", "ID">>, 2, "toInt">>,
   <<"NewPlayerThrew", <<"Position", "X">>, 6, "toInt">>,
   <<"NewPlayerThrew", <<"Position", "Y">>, 7, "toInt">>,
   <<"NewPlayerThrew", <<"Position", "Z">>, 8, "toInt">>,
   <<"NewPlayerThrew", <<"Entindex">>, 10, "toInt">>,
   <<"NewPlayerBlinded", <<"Victim", "ID">>, 2, "toInt">>,
   <<"NewPlayerBlinded", <<"For">>, 5, "toFloat32">>,
   <<"NewPlayerBlinded", <<"Attacker", "ID">>, 7, "toInt">>,
   <<"NewPlayerBlinded", <<"Entindex">>, 10, "toInt">>,
   <<"NewProjectileSpawned", <<"Position", "X">>, 1, "toFloat32">>,
   <<"NewProjectileSpawned", <<"Position", "Y">>, 2, "toFloat32">>,
   <<"NewProjectileSpawned", <<"Position", "Z">>, 3, "toFloat32">>,
   <<"NewProjectileSpawned", <<"Velocity", "X">>, 4, "toFloat32">>,
   <<"NewProjectileSpawned", <<"Velocity", "Y">>, 5, "toFloat32">>,
   <<"NewProjectileSpawned", <<"Velocity", "Z">>, 6, "toFloat32">>,
   <<"NewGameOver", <<"ScoreCT">>, 4, "toInt">>, <<"NewGameOver", <<"ScoreT">>, 5, "toInt">>,
   <<"NewGameOver", <<"Duration">>, 6, "toInt">>,
   <<"NewPlayerKillOther", <<"Attacker", "ID">>, 2, "toInt">>,
   <<"NewPlayerKillOther", <<"AttackerPosition", "X">>, 5, "toInt">>,
   <<"NewPlayerKillOther", <<"AttackerPosition", "Y">>, 6, "toInt">>,
   <<"NewPlayerKillOther", <<"AttackerPosition", "Z">>, 7, "toInt">>,
   <<"NewPlayerKillOther", <<"VictimPosition", "X">>, 10, "toInt">>,
   <<"NewPlayerKillOther", <<"VictimPosition", "Y">>, 11, "toInt">>,
   <<"NewPlayerKillOther", <<"VictimPosition", "Z">>, 12, "toInt">>}

\* The field of event m at a path of one or two names.
FieldAt(m, path) == IF Len(path) = 1 THEN m[path[1]] ELSE m[path[1]][path[2]]

\* The variant the extractor NewX is written for: X.
VariantOf(fun) == SubSeq(fun, 4, Len(fun))

\* The text is a decimal numeral: an optional sign, digits with at most one
\* point among them, at least one digit.
Unsigned(v) == IF v # "" /\ CharAt(v, 1) \in {"+", "-"} THEN SubSeq(v, 2, Len(v)) ELSE v
PointsOf(v) == {j \in 1..Len(v) : CharAt(v, j) = "."}
IsNumeral(v) ==
  /\ \A j \in 1..Len(Unsigned(v)) : CharAt(Unsigned(v), j) \in Digit \cup {"."}
  /\ Cardinality(PointsOf(Unsigned(v))) <= 1
  /\ \E j \in 1..Len(Unsigned(v)) : CharAt(Unsigned(v), j) \in Digit

\* Fraction digits a and b write the same fraction: they differ by zeros at
\* the end.
SameFraction(a, b) ==
  LET n == IF Len(a) <= Len(b) THEN Len(a) ELSE Len(b)
  IN  /\ SubSeq(a, 1, n) = SubSeq(b, 1, n)
      /\ \A j \in (n + 1)..Len(a) : CharAt(a, j) = "0"
      /\ \A j \in (n + 1)..Len(b) : CharAt(b, j) = "0"

\* The float32 x is the number the numeral v writes.
WritesNumber(x, v) ==
  LET u == Unsigned(v)
      p == IF PointsOf(u) = {} THEN Len(u) + 1 ELSE CHOOSE j \in PointsOf(u) : TRUE
  IN  /\ x.neg = (CharAt(v, 1) = "-")
      /\ x.int = DecimalValue(SubSeq(u, 1, p - 1))
      /\ SameFraction(x.frac, SubSeq(u, p + 1, Len(u)))

FloatZero == [neg |-> FALSE, int |-> 0, frac |-> ""]

\* A field filled from capture v holds what the corrected claim says.
LenientField(x, v, helper) ==
  IF helper = "toInt" THEN x = (IF IsInt(v) THEN IntegerOf(v) ELSE 0)
  ELSE IF IsNumeral(v) THEN WritesNumber(x, v) ELSE x = FloatZero

\* A field filled from capture v holds what the claim says as it is
\* written: the integer v writes when v is an integer of the range of int,
\* and 0 otherwise, through either helper.
IntegerOrZeroField(x, v, helper) ==
  IF helper = "toInt" THEN x = (IF IsInt(v) THEN IntegerOf(v) ELSE 0)
  ELSE IF IsInt(v) THEN WritesNumber(x, v) ELSE x = FloatZero

\* The extractor the default table pairs with the pattern Parse returned at.
ExtractorOf(g) == DefaultPatterns[hit[g].re]

Variants ==
  {"ServerMessage", "FreezTimeStart", "WorldMatchStart", "WorldRoundStart",
   "WorldRoundRestart", "WorldRoundEnd", "WorldGameCommencing", "TeamScored",
   "TeamNotice", "PlayerConnected", "PlayerDisconnected", "PlayerEntered",
   "PlayerBanned", "PlayerSwitched", "PlayerSay", "PlayerPurchase", "PlayerKill",
   "PlayerKillAssist", "PlayerAttack", "PlayerKilledBomb", "PlayerKilledSuicide",
   "PlayerPickedUp", "PlayerDropped", "PlayerMoneyChange", "PlayerBombGot",
   "PlayerBombPlanted", "PlayerBombDropped", "PlayerBombBeginDefuse",
   "PlayerBombDefused", "PlayerThrew", "PlayerBlinded", "ProjectileSpawned", "GameOver",
   "ServerCvar", "Get5Event", "Rcon", "PlayerKillOther", "Unknown"}

\* The offset of the first timestamp of the line.
FirstStamp(l) ==
  CHOOSE k \in 0..Len(l) : HasStampAt(l, k) /\ \A j \in 0..(k - 1) : ~HasStampAt(l, j)

\* C9: every event returned has a type tag that is not empty, is one of the
\* 38 tags of the variants and is the name of the variant returned (so
\* distinct variants have distinct tags), and GetTime is the date and time
\* written in the timestamp of the line, to the second.
TypeTagIsVariant ==
  /\ Cardinality(Variants) = 38
  /\ \A g \in Goroutines :
       (Returned(g) /\ ret[g].err = "nil")
       => /\ GetType(ret[g].msg) # ""
          /\ GetType(ret[g].msg) \in Variants
          /\ GetType(ret[g].msg) = ret[g].msg.struct
          /\ GetTime(ret[g].msg) = WrittenTime(line[g], FirstStamp(line[g]))

\* A round-start line stamped on a leap day has been parsed.
TypeTagIsVariantWitness ==
  \E g \in Goroutines :
    /\ ParseReturned(g)
    /\ BeginsWithPrefix(line[g])
    /\ ret[g].msg.struct = "WorldRoundStart"
    /\ GetType(ret[g].msg) = "WorldRoundStart"
    /\ GetTime(ret[g].msg) =
         [year |-> 2024, month |-> 2, day |-> 29, hour |-> 0, min |-> 0, sec |-> 0]

\* C10: parsing is stateless: no step of a call of Parse, in any
\* interleaving of concurrent calls, writes state shared between calls.
ParseWritesNoSharedState == [][stdlog' = stdlog]_vars

\* The offset of the first occurrence of sub in s, and Len(s) when there is
\* none.
IndexOf(s, sub) ==
  LET at == {i \in 0..(Len(s) - Len(sub)) : SubSeq(s, i + 1, i + Len(sub)) = sub}
  IN  IF at = {} THEN Len(s) ELSE CHOOSE i \in at : \A j \in at : i <= j

\* The text of s after the first occurrence of sub.
After(s, sub) == SubSeq(s, IndexOf(s, sub) + Len(sub) + 1, Len(s))

\* The text of a kill payload after the closing quote of the weapon.
KillSuffix(p) == After(After(p, "] with \""), "\"")

\* Goroutine g has returned from Parse with an event of the variant, built
\* from a match of the pattern.
ParsedAs(g, re, variant) ==
  /\ ParseReturned(g) /\ ValidLine(line[g])
  /\ hit[g].re = re
  /\ ret[g].err = "nil" /\ ret[g].msg.struct = variant

\* The two flags of the kill event goroutine g returned.
KillFlags(g) == <<ret[g].msg.Headshot, ret[g].msg.Penetrated>>

Upto(s, sub) == SubSeq(s, 1, IndexOf(s, sub))

\* The text a payload writes between the quotes after "triggered".
TriggeredText(p) == Upto(After(p, " triggered \""), "\"")

\* C12: a begin-defuse event has Kit false exactly when the triggered text
\* is Begin_Bomb_Defuse_Without_Kit and true exactly when it is
\* Begin_Bomb_Defuse_With_Kit; Kit is the negation of "the marker out was
\* captured"; and every PlayerBombBeginDefuse event comes from such a line.
KitFollowsTriggeredText ==
  \A g \in Goroutines :
    (ParseReturned(g) /\ ret[g].err = "nil"
       /\ ret[g].msg.struct = "PlayerBombBeginDefuse")
    => LET text == TriggeredText(PayloadOf(line[g]))
       IN  /\ hit[g].re = "PlayerBombBeginDefusePattern"
           /\ text \in {"Begin_Bomb_Defuse_Without_Kit", "Begin_Bomb_Defuse_With_Kit"}
           /\ ret[g].msg.Kit = (text = "Begin_Bomb_Defuse_With_Kit")
           /\ ret[g].msg.Kit = ~(hit[g].r[5] = "out")

\* A begin-defuse line without kit has been parsed.
KitFollowsTriggeredTextWitness ==
  \E g \in Goroutines :
    /\ ParsedAs(g, "PlayerBombBeginDefusePattern", "PlayerBombBeginDefuse")
    /\ TriggeredText(PayloadOf(line[g])) = "Begin_Bomb_Defuse_Without_Kit"
    /\ hit[g].r[5] = "out"
    /\ ret[g].msg.Kit = FALSE

\* s begins with pre.
HasPrefix(s, pre) == Len(s) >= Len(pre) /\ SubSeq(s, 1, Len(pre)) = pre

\* The text of a money-change payload after "(tracked)", of a threw payload
\* after the position, and of a say payload after "say".
MoneySuffix(p) == After(p, " (tracked)")
ThrewSuffix(p) == After(After(p, "\" threw "), "]")
SaySuffix(p) == After(p, ">\" say")

\* C13: an optional group that takes no part in the match reads as the
\* empty string and gives the default of its field, with no error: a
\* money-change line without "(purchase: X)" gives Purchase = "", and with
\* it Purchase = X; a threw line without "flashbang entindex N" gives
\* Entindex = 0, and with it N; a say line gives Team = false, and a
\* say_team line Team = true.
AbsentGroupGivesDefault ==
  \A g \in Goroutines :
    LET p == PayloadOf(line[g])
    IN  /\ ParsedAs(g, "PlayerMoneyChangePattern", "PlayerMoneyChange")
           => /\ MoneySuffix(p) = ""
                   => hit[g].r[9] = "" /\ ret[g].msg.Purchase = ""
              /\ HasPrefix(MoneySuffix(p), " (purchase: ")
                   => ret[g].msg.Purchase = Upto(After(MoneySuffix(p), " (purchase: "), ")")
        /\ ParsedAs(g, "PlayerThrewPattern", "PlayerThrew")
           => /\ ThrewSuffix(p) = ""
                   => hit[g].r[10] = "" /\ ret[g].msg.Entindex = 0
              /\ HasPrefix(ThrewSuffix(p), " flashbang entindex ")
                   => ret[g].msg.Entindex =
                        IntegerOf(Upto(After(ThrewSuffix(p), " flashbang entindex "), ")"))
        /\ ParsedAs(g, "PlayerSayPattern", "PlayerSay")
           => /\ HasPrefix(SaySuffix(p), " \"")
                   => hit[g].r[5] = "" /\ ret[g].msg.Team = FALSE
              /\ HasPrefix(SaySuffix(p), "_team \"") => ret[g].msg.Team = TRUE

\* A money-change line without the purchase group has been parsed.
AbsentGroupGivesDefaultWitness ==
  \E g \in Goroutines :
    /\ ParsedAs(g, "PlayerMoneyChangePattern", "PlayerMoneyChange")
    /\ MoneySuffix(PayloadOf(line[g])) = ""
    /\ ret[g].msg.Purchase = ""
    /\ hit[g].r[8] = "" /\ hit[g].r[9] = ""

\* The sides a Player may have.
Sides == {"CT", "TERRORIST", "Unassigned", ""}

\* The variants whose grammar writes no side for the player.
SidelessVariants == {"PlayerConnected", "PlayerEntered", "PlayerBanned", "PlayerSwitched"}

\* The fields of event m that hold a Player (the victim of a kill-other
\* event is a name, not a Player), and the Player values embedded in m.
PlayerFields(m) ==
  (IF m.struct = "PlayerKillOther" THEN {"Attacker"} ELSE {"Player", "Attacker", "Victim"})
    \cap DOMAIN m
PlayersOf(m) == {m[f] : f \in PlayerFields(m)}

\* C14 (corrected): every Player of an event has Side CT, TERRORIST,
\* Unassigned or "".  Side is "" in every connected, entered, banned and
\* switched event, and otherwise only in a disconnected event whose line
\* writes empty side brackets (<>).
SideIsKnown ==
  \A g \in Goroutines :
    (ParseReturned(g) /\ ret[g].err = "nil")
    => \A pl \in PlayersOf(ret[g].msg) :
         /\ pl.Side \in Sides
         /\ ret[g].msg.struct \in SidelessVariants => pl.Side = ""
         /\ ret[g].msg.struct = "PlayerDisconnected"
              => (pl.Side = "" <=> Contains(PayloadOf(line[g]), "<>\" disconnected"))
         /\ ret[g].msg.struct \notin SidelessVariants \cup {"PlayerDisconnected"}
              => pl.Side # ""

\* A disconnected line with empty side brackets has been parsed.
SideIsKnownWitness ==
  \E g \in Goroutines :
    /\ ParsedAs(g, "PlayerDisconnectedPattern", "PlayerDisconnected")
    /\ Contains(PayloadOf(line[g]), "<>\" disconnected")
    /\ ret[g].msg.Player.Side = ""

\* C14 as written: Side is CT, TERRORIST, Unassigned or "", and is ""
\* exactly in connected, entered, banned and switched events.
SideEmptyOnlyWhenSideless ==
  \A g \in Goroutines :
    (ParseReturned(g) /\ ret[g].err = "nil")
    => \A pl \in PlayersOf(ret[g].msg) :
         /\ pl.Side \in Sides
         /\ pl.Side = "" <=> ret[g].msg.struct \in SidelessVariants

\* Goroutine g has passed the message Parse returned to ToJSON.
Encoded(g) == ParseReturned(g) /\ ret[g].err = "nil" /\ buf[g] # ""

\* The strings held in the fields of a value of the type.
RECURSIVE StringsOf(_, _)
StringsOf(type, v) ==
  CASE type = "string" -> {v}
    [] type \in {"int", "uint", "bool", "float32"} -> {}
    [] OTHER -> UNION {StringsOf(x[3], v[x[1]]) : x \in FieldsOf(type)}

\* The characters of Html that the strings of message m hold.
Html == {"<", ">", "&"}
HtmlOf(m) ==
  {c \in Html : \E s \in StringsOf(m.struct, m) : Contains(s, c)}

\* C15: decoding the text ToJSON gives for an event into the struct of its
\* variant gives the event back, field for field (type tag, time, players,
\* positions, equation, params); equal events give equal texts; and the
\* characters <, > and & of the fields are in the text as they are, with no
\* \u escape in their place.
ToJSONRoundTrip ==
  \A g \in Goroutines :
    Encoded(g)
    => /\ Unmarshal(buf[g], ret[g].msg.struct).err = "nil"
       /\ Unmarshal(buf[g], ret[g].msg.struct).v = ret[g].msg
       /\ \A h \in Goroutines : Encoded(h) /\ ret[h].msg = ret[g].msg => buf[h] = buf[g]
       /\ \A c \in HtmlOf(ret[g].msg) : Contains(buf[g], c)
       /\ ~Contains(buf[g], "\\u003c") /\ ~Contains(buf[g], "\\u003e")
       /\ ~Contains(buf[g], "\\u0026")

\* C15 for the events whose strings hold no byte that is not valid UTF-8.
ToJSONRoundTripOfValidText ==
  \A g \in Goroutines :
    (Encoded(g) /\ \A s \in StringsOf(ret[g].msg.struct, ret[g].msg) : ~Contains(s, BadByte))
    => /\ Unmarshal(buf[g], ret[g].msg.struct).err = "nil"
       /\ Unmarshal(buf[g], ret[g].msg.struct).v = ret[g].msg
       /\ \A c \in HtmlOf(ret[g].msg) : Contains(buf[g], c)

\* C16: dispatch selects a recognizer only if its pattern matches the whole
\* payload: the text the pattern matched is the payload, with nothing
\* before it and nothing after it; a recognisable message with extra text
\* around it yields Unknown unless a pattern matches all of it.
DispatchMatchesFully ==
  \A g \in Goroutines :
    (ParseReturned(g) /\ ValidLine(line[g]))
    => /\ hit[g].re # "" => hit[g].r[0] = PayloadOf(line[g])
       /\ (\A p \in DOMAIN DefaultPatterns :
             LET r == FindStringSubmatch(MustCompile(p), PayloadOf(line[g]))
             IN  r = <<>> \/ r[0] # PayloadOf(line[g]))
           => ret[g].msg.struct = "Unknown" /\ hit[g].re = ""

\* C17: every Unknown that Parse returns has Raw equal to the whole payload
\* of the line, when no recognizer matches and when the get5_event or the
\* rcon extractor falls back to Unknown.
UnknownRawIsPayload ==
  \A g \in Goroutines :
    (ParseReturned(g) /\ ValidLine(line[g]) /\ ret[g].err = "nil"
       /\ ret[g].msg.struct = "Unknown")
    => ret[g].msg.Raw = PayloadOf(line[g])

\* src/csgolog.go:604-1110
\* The highest index of r that each extractor reads (0: none).  NewGet5Event
\* and NewRconEvent also pass r to NewUnknown, which reads r[1].
HighestRead ==
  [NewServerMessage |-> 1, NewFreezTimeStart |-> 0, NewWorldMatchStart |-> 1,
   NewWorldRoundStart |-> 0, NewWorldRoundRestart |-> 1, NewWorldRoundEnd |-> 0,
   NewWorldGameCommencing |-> 0, NewTeamScored |-> 3, NewTeamNotice |-> 4,
   NewPlayerConnected |-> 4, NewPlayerDisconnected |-> 5, NewPlayerEntered |-> 3,
   NewPlayerBanned |-> 5, NewPlayerSwitched |-> 5, NewPlayerSay |-> 6,
   NewPlayerPurchase |-> 5, NewPlayerKill |-> 17, NewPlayerKillAssist |-> 8,
   NewPlayerAttack |-> 20, NewPlayerKilledBomb |-> 7, NewPlayerKilledSuicide |-> 8,
   NewPlayerPickedUp |-> 5, NewPlayerDropped |-> 5, NewPlayerMoneyChange |-> 9,
   NewPlayerBombGot |-> 4, NewPlayerBombPlanted |-> 4, NewPlayerBombDropped |-> 4,
   NewPlayerBombBeginDefuse |-> 5, NewPlayerBombDefused |-> 4, NewPlayerThrew |-> 10,
   NewPlayerBlinded |-> 10, NewProjectileSpawned |-> 6, NewGameOver |-> 6,
   NewServerCvar |-> 2, NewGet5Event |-> 4, NewRconEvent |-> 3,
   NewPlayerKillOther |-> 13, NewUnknown |-> 1]

\* C18: every extractor of the default table reads only capture indices
\* that its pattern defines (17 for kill, 9 for money change, 10 for threw,
\* 20 for attack, 13 for kill-other); the submatch passed to it has one
\* entry for each group of the pattern, whether or not the group took part,
\* so that the call returns an event and Parse returns it with a nil error.
ExtractorsReadDefinedCaptures ==
  /\ \A p \in DOMAIN DefaultPatterns :
       /\ HighestRead[DefaultPatterns[p]] <= NumSubexp(MustCompile(p))
       /\ HighestRead["NewUnknown"] <= NumSubexp(MustCompile(p))
            \/ DefaultPatterns[p] \notin {"NewGet5Event", "NewRconEvent"}
  /\ HighestRead["NewPlayerKill"] = 17 /\ HighestRead["NewPlayerMoneyChange"] = 9
  /\ HighestRead["NewPlayerThrew"] = 10 /\ HighestRead["NewPlayerAttack"] = 20
  /\ HighestRead["NewPlayerKillOther"] = 13
  /\ \A g \in Goroutines :
       (ParseReturned(g) /\ hit[g].re # "")
       => /\ DOMAIN hit[g].r = 0..NumSubexp(MustCompile(hit[g].re))
          /\ HighestRead[DefaultPatterns[hit[g].re]] \in DOMAIN hit[g].r
          /\ ret[g].err = "nil"
          /\ ret[g].msg.struct \in Variants

\* An attack line has been parsed: its extractor has read index 20.
ExtractorsReadDefinedCapturesWitness ==
  \E g \in Goroutines :
    /\ ParsedAs(g, "PlayerAttackPattern", "PlayerAttack")
    /\ NumSubexp(PlayerAttackPattern) = 20
    /\ hit[g].r[20] = "left arm"
    /\ ret[g].msg.Hitgroup = "left arm"

=============================================================================
